---- MODULE Spec2Model ----
(***************************************************************************)
(* A model of the SPARQL conformance harness of qlever-control             *)
(* (src/src/sparql_conformance): the result comparators for CSV/TSV, JSON  *)
(* and XML results and the test orchestrator TestSuite.run().              *)
(*                                                                         *)
(* Each component is a state machine of its own with its own               *)
(* specification (SpecSv, SpecJson, SpecXml, SpecSuite); the variables of  *)
(* the other components rest at an idle value meanwhile.                   *)
(*                                                                         *)
(* Strings are atomic tokens; the table Chars gives the spelling of every  *)
(* token the code looks into (first character, length, split("^"),         *)
(* float()).                                                               *)
(***************************************************************************)
EXTENDS Integers, Sequences, FiniteSets, TLC

VARIABLES
    \* compare_sv (tsv_csv_tools.py)
    svPc,               \* position in compare_sv
    svAlias,            \* alias: the configured alias table
    svExpected,         \* expected_array
    svActual,           \* actual_array (raw, then realigned)
    svActualCopy,       \* actual_array_copy
    svExpectedCopy,     \* expected_array_copy
    svActualRed,        \* actual_array_mark_red
    svExpectedRed,      \* expected_array_mark_red
    svMap,              \* map_bnodes
    svPairs,            \* history: <<actual label, expected label>> of the rows that compared equal
    svStatus,           \* status
    svError             \* error_type

VARIABLES
    \* compare_json (json_tools.py)
    jsPc,               \* position in compare_json
    jsAlias,            \* alias
    jsExpected,         \* expected: [vars, bindings, boolean]
    jsQuery,            \* query: [vars, bindings, boolean]
    jsBindings1,        \* bindings1
    jsBindings2,        \* bindings2
    jsUnique1,          \* unique_bindings1
    jsUnique2,          \* unique_bindings2
    jsMap,              \* map_bnodes
    jsPairs,            \* history: <<expected label, actual label>> of the bindings that compared equal
    jsStatus,           \* status
    jsError             \* error_type

VARIABLES
    \* compare_xml (xml_tools.py)
    xmPc,               \* position in compare_xml
    xmAlias,            \* alias
    xmExpected,         \* expected_tree: [has_head, head, has_results, results, boolean]
    xmQuery,            \* query_tree: [has_head, head, has_results, results, boolean]
    xmMap,              \* map_bnodes
    xmPairs,            \* history: <<expected label, actual label>> of the elements that compared equal
    xmStatus,           \* status
    xmError             \* error_type

svVars == <<svPc, svAlias, svExpected, svActual, svActualCopy, svExpectedCopy,
            svActualRed, svExpectedRed, svMap, svPairs, svStatus, svError>>

jsVars == <<jsPc, jsAlias, jsExpected, jsQuery, jsBindings1, jsBindings2, jsUnique1,
            jsUnique2, jsMap, jsPairs, jsStatus, jsError>>

xmVars == <<xmPc, xmAlias, xmExpected, xmQuery, xmMap, xmPairs, xmStatus, xmError>>

VARIABLES
    \* TestSuite.run (testsuite.py)
    suPc,               \* "run", or how run() ended: "done", "interrupted", "crashed"
    suTests,            \* self.tests: the tests in the order run() meets them
    suNext,             \* the test the loops are at
    suStep,             \* "prepare": before prepare_test_environment; "test": before
                        \* the test; "end": after the last test of a group
    suStatus,           \* test.status
    suError,            \* test.error_type
    suEngine,           \* "live" between a successful setup and the next cleanup
    suWrites,           \* history: the calls of update_test_status per test
    suSetup,            \* history: how the last setup of each group ended
    suLast,             \* history: the last call of setup or cleanup
    suIntr,             \* history: a KeyboardInterrupt was raised inside run()
    suCode,             \* history: the status code answered to each syntax test, 0
                        \* before the test
    suMet               \* history: what the last call of setup met: the state of the
                        \* engine and the call before it

suVars == <<suPc, suTests, suNext, suStep, suStatus, suError, suEngine, suWrites,
            suSetup, suLast, suIntr, suCode, suMet>>

VARIABLES
    \* run_protocol_test (protocol_tools.py)
    prPc,               \* "loop", or how run_protocol_test ended: "done", "raised"
    prType,             \* test.type_name
    prScript,           \* test_request_split: the sections of the script
    prNewpath,          \* newpath
    prSent,             \* requests: what stood for the target of each request sent
    prGot,              \* got_responses
    prMatch,            \* status: the list of matching
    prResult,           \* result
    prError             \* error_type

prVars == <<prPc, prType, prScript, prNewpath, prSent, prGot, prMatch, prResult, prError>>

VARIABLES
    \* parse_chunked_body (protocol_tools.py)
    chPc,               \* "loop", or how parse_chunked_body ended: "done", "raised"
    chBody,             \* response_body
    chPlain,            \* history: the string response_body is the encoding of, if any
    chI,                \* i
    chResult,           \* ''.join(result)
    chToken             \* chunk_size_str, as last read

chVars == <<chPc, chBody, chPlain, chI, chResult, chToken>>

VARIABLES
    \* The reconciliation of two bags, in both orders (compare_array of
    \* tsv_csv_tools.py, remove_once_found of json_tools.py)
    bgPc,               \* "forward", "backward", "done"
    bgKind,             \* "rows" (compare_array) or "bindings" (remove_once_found)
    bgLenient,          \* use_config / compare_with_intended_behaviour
    bgA,                \* the bag A
    bgB,                \* the bag B
    bgForward,          \* after reconciling (A, B): [first, second, raised]
    bgBackward          \* after reconciling (B, A): [first, second, raised]

bgVars == <<bgPc, bgKind, bgLenient, bgA, bgB, bgForward, bgBackward>>

VARIABLES
    \* UpdateWikidataCommand.execute (qlever/commands/update_wikidata.py)
    uwPc,               \* "connect", "wait", "events", "assemble", "post", or how
                        \* execute() ended: "done" (True), "failed" (False), "raised"
    uwArgs,             \* args: [batch_size, wait_between_batches, until]
    uwCtrlC,            \* self.ctrl_c_pressed
    uwFinished,         \* self.finished
    uwWait,             \* wait_before_next_batch
    uwTicks,            \* the seconds slept in the wait loop
    uwEventId,          \* event_id_for_next_batch is set
    uwSize,             \* current_batch_size = len(date_list) = len(delta_to_now_list)
    uwDeleted,          \* delete_entity_ids is not empty
    uwBatchCount,       \* batch_count
    uwElapsedSet,       \* elapsed_time_s and time_us_per_op are bound
    uwStarted,          \* history: the batches started (connections opened)
    uwPressedAt,        \* history: the batch the first Ctrl+C fell into, 0 before it
    uwEndedBy           \* history: what finished the last batch: "ctrl_c", "readd",
                        \* "size", "recent", "until", "stream"; "none" before

uwVars == <<uwPc, uwArgs, uwCtrlC, uwFinished, uwWait, uwTicks, uwEventId, uwSize,
            uwDeleted, uwBatchCount, uwElapsedSet, uwStarted, uwPressedAt, uwEndedBy>>

VARIABLES
    \* QLeverBinaryManager._start_server (engines/qlever_binary.py)
    wsPc,               \* "start": before Popen; "poll": in the loop of
                        \* _wait_for_server_startup; "done": _start_server returned
    wsAnswers,          \* history: what each requests.post of the loop got
    wsSleeps,           \* history: the calls of time.sleep(retry_interval)
    wsSuccess,          \* the first element of the returned tuple
    wsLog               \* the second element of the returned tuple

wsVars == <<wsPc, wsAnswers, wsSleeps, wsSuccess, wsLog>>

VARIABLES
    \* prepare_request and the write of run_protocol_test (protocol_tools.py)
    rqPc,               \* "prepare", "send", "sent"
    rqLines,            \* the lines of the script after the blank line that ends the
                        \* header, stripped
    rqDeclared,         \* the Content-Length line of the script: "none", "XXX" or digits
    rqUtf16,            \* the header names charset=UTF-16
    rqLength,           \* the value of Content-Length in request_head
    rqBody,             \* request_body as prepare_request returns it
    rqSent              \* the number of bytes written after the blank line

rqVars == <<rqPc, rqLines, rqDeclared, rqUtf16, rqLength, rqBody, rqSent>>

VARIABLES
    \* xml_elements_equal on two <result> elements (xml_tools.py)
    xePc,               \* "call", "returned"
    xeElement1,         \* element1
    xeElement2,         \* element2
    xeLenient,          \* compare_with_intended_behaviour
    xeEqual             \* what xml_elements_equal returned

xeVars == <<xePc, xeElement1, xeElement2, xeLenient, xeEqual>>

VARIABLES
    \* UpdateWikidataCommand.execute: the assembly of one batch
    \* (commands/update_wikidata.py)
    baPc,               \* "events": in the loop over the events; "ended": the loop was
                        \* left by break; "failed": execute returned False
    baInsert,           \* insert_triples
    baDelete,           \* delete_triples
    baDeleteIds,        \* delete_entity_ids
    baSize,             \* current_batch_size
    baEndedBy,          \* history: the condition that completed the batch
    baLog               \* history: the messages that were processed, in their order

baVars == <<baPc, baInsert, baDelete, baDeleteIds, baSize, baEndedBy, baLog>>

vars == <<svVars, jsVars, xmVars, suVars, prVars, chVars, bgVars, uwVars, wsVars, rqVars, xeVars, baVars>>

\* What a component leaves alone: the variables of the other components.
svOthers == <<jsVars, xmVars, suVars, prVars, chVars, bgVars, uwVars, wsVars, rqVars, xeVars, baVars>>
jsOthers == <<svVars, xmVars, suVars, prVars, chVars, bgVars, uwVars, wsVars, rqVars, xeVars, baVars>>
xmOthers == <<svVars, jsVars, suVars, prVars, chVars, bgVars, uwVars, wsVars, rqVars, xeVars, baVars>>
suOthers == <<svVars, jsVars, xmVars, prVars, chVars, bgVars, uwVars, wsVars, rqVars, xeVars, baVars>>
prOthers == <<svVars, jsVars, xmVars, suVars, chVars, bgVars, uwVars, wsVars, rqVars, xeVars, baVars>>
chOthers == <<svVars, jsVars, xmVars, suVars, prVars, bgVars, uwVars, wsVars, rqVars, xeVars, baVars>>
bgOthers == <<svVars, jsVars, xmVars, suVars, prVars, chVars, uwVars, wsVars, rqVars, xeVars, baVars>>
uwOthers == <<svVars, jsVars, xmVars, suVars, prVars, chVars, bgVars, wsVars, rqVars, xeVars, baVars>>
wsOthers == <<svVars, jsVars, xmVars, suVars, prVars, chVars, bgVars, uwVars, rqVars, xeVars, baVars>>
rqOthers == <<svVars, jsVars, xmVars, suVars, prVars, chVars, bgVars, uwVars, wsVars, xeVars, baVars>>
xeOthers == <<svVars, jsVars, xmVars, suVars, prVars, chVars, bgVars, uwVars, wsVars, rqVars, baVars>>
baOthers == <<svVars, jsVars, xmVars, suVars, prVars, chVars, bgVars, uwVars, wsVars, rqVars, xeVars>>

(***************************************************************************)
(* Status and ErrorMessage (test_object.py).                               *)
(***************************************************************************)
PASSED == "Passed"
INTENDED == "Failed: Intended"
FAILED == "Failed"
NOT_TESTED == "Not tested"

QUERY_EXCEPTION == "QUERY EXCEPTION"
REQUEST_ERROR == "REQUEST ERROR"
QUERY_ERROR == "QUERY RESULT ERROR"
INDEX_BUILD_ERROR == "INDEX BUILD ERROR"
SERVER_ERROR == "SERVER ERROR"
RESULTS_NOT_THE_SAME == "RESULTS NOT THE SAME"
INTENDED_MSG == "Known, intended behaviour that does not comply with SPARQL standard"
EXPECTED_EXCEPTION == "EXPECTED: QUERY EXCEPTION ERROR"
FORMAT_ERROR == "QUERY RESULT FORMAT ERROR"
NOT_SUPPORTED == "QUERY NOT SUPPORTED"
CONTENT_TYPE_NOT_SUPPORTED == "CONTENT TYPE NOT SUPPORTED"
NoError == ""

(***************************************************************************)
(* Strings.                                                                *)
(***************************************************************************)
Chars ==
    [ t \in {"_:a", "_:b", "1", "2", "1.0", "1.0^^d", "3E4", "30000", "30001",
             "int", "integer", "x", "y", "_", " ", ""} |->
        CASE t = "" -> <<>>
          [] t = " " -> <<" ">>
          [] t = "_:a" -> <<"_", ":", "a">>
          [] t = "_:b" -> <<"_", ":", "b">>
          [] t = "1" -> <<"1">>
          [] t = "2" -> <<"2">>
          [] t = "1.0" -> <<"1", ".", "0">>
          [] t = "1.0^^d" -> <<"1", ".", "0", "^", "^", "d">>
          [] t = "3E4" -> <<"3", "E", "4">>
          [] t = "30000" -> <<"3", "0", "0", "0", "0">>
          [] t = "30001" -> <<"3", "0", "0", "0", "1">>
          [] t = "int" -> <<"i", "n", "t">>
          [] t = "integer" -> <<"i", "n", "t", "e", "g", "e", "r">>
          [] t = "x" -> <<"x">>
          [] t = "y" -> <<"y">>
          [] t = "_" -> <<"_">> ]

Tokens == DOMAIN Chars

\* The token spelled cs.
TokenOf(cs) == CHOOSE t \in Tokens : Chars[t] = cs

\* s.split("^")[0]
split_caret(s) ==
    LET cs == Chars[s]
        hits == {i \in DOMAIN cs : cs[i] = "^"}
    IN  IF hits = {} THEN s
        ELSE TokenOf(SubSeq(cs, 1, (CHOOSE i \in hits : \A j \in hits : i <= j) - 1))

DigitVal ==
    [ c \in {"0", "1", "2", "3", "4", "5", "6", "7", "8", "9"} |->
        CASE c = "0" -> 0 [] c = "1" -> 1 [] c = "2" -> 2 [] c = "3" -> 3
          [] c = "4" -> 4 [] c = "5" -> 5 [] c = "6" -> 6 [] c = "7" -> 7
          [] c = "8" -> 8 [] c = "9" -> 9 ]

IsDigits(cs) == Len(cs) > 0 /\ \A i \in DOMAIN cs : cs[i] \in DOMAIN DigitVal

RECURSIVE DigitsToNat(_)
DigitsToNat(cs) ==
    IF cs = <<>> THEN 0
    ELSE 10 * DigitsToNat(SubSeq(cs, 1, Len(cs) - 1)) + DigitVal[cs[Len(cs)]]

RECURSIVE Pow10(_)
Pow10(n) == IF n = 0 THEN 1 ELSE 10 * Pow10(n - 1)

\* The first position of one of the characters cset in cs, 0 when there is none.
FirstPos(cs, cset) ==
    LET hits == {i \in DOMAIN cs : cs[i] \in cset}
    IN  IF hits = {} THEN 0 ELSE CHOOSE i \in hits : \A j \in hits : i <= j

(***************************************************************************)
(* float(s) for unsigned decimal literals  digits [. digits] [E digits]:   *)
(* [ok, mant, frac, exp], the value being mant * 10^exp / 10^frac; ok is   *)
(* FALSE where float(s) raises ValueError. Every operator takes what the   *)
(* one before it computed.                                                 *)
(***************************************************************************)
FloatOfParts(ip, fp, ep, d) ==
    IF IsDigits(ip) /\ (d = 0 \/ IsDigits(fp)) /\ IsDigits(ep)
    THEN [ok |-> TRUE, mant |-> DigitsToNat(ip \o fp), frac |-> Len(fp),
          exp |-> DigitsToNat(ep)]
    ELSE [ok |-> FALSE, mant |-> 0, frac |-> 0, exp |-> 0]

FloatSplitAt(mp, ep, d) ==
    FloatOfParts(IF d = 0 THEN mp ELSE SubSeq(mp, 1, d - 1),
                 IF d = 0 THEN <<>> ELSE SubSeq(mp, d + 1, Len(mp)), ep, d)

FloatSplitExp(cs, e) ==
    FloatSplitAt(IF e = 0 THEN cs ELSE SubSeq(cs, 1, e - 1),
                 IF e = 0 THEN <<"0">> ELSE SubSeq(cs, e + 1, Len(cs)),
                 IF e = 0 THEN FirstPos(cs, {"."})
                 ELSE FirstPos(SubSeq(cs, 1, e - 1), {"."}))

FloatOfChars(cs) == FloatSplitExp(cs, FirstPos(cs, {"E", "e"}))

ParseFloat(s) == FloatOfChars(Chars[s])

\* util.is_number
is_number(s) == ParseFloat(s).ok

FloatRecEq(a, b) ==
    a.mant * Pow10(a.exp) * Pow10(b.frac) = b.mant * Pow10(b.exp) * Pow10(a.frac)

\* float(value1) == float(value2)
FloatEq(s1, s2) == FloatRecEq(ParseFloat(s1), ParseFloat(s2))

(***************************************************************************)
(* Python lists.                                                           *)
(***************************************************************************)
\* list.index(x), 0 when x is not in the list
IndexOf(list, x) ==
    LET hits == {i \in DOMAIN list : list[i] = x}
    IN  IF hits = {} THEN 0 ELSE CHOOSE i \in hits : \A j \in hits : i <= j

RemoveAt(list, i) == SubSeq(list, 1, i - 1) \o SubSeq(list, i + 1, Len(list))

Count(list, x) == Cardinality({i \in DOMAIN list : list[i] = x})

\* sorted(list1) == sorted(list2)
SortedEqual(list1, list2) ==
    /\ Len(list1) = Len(list2)
    /\ \A i \in DOMAIN list1 : Count(list1, list1[i]) = Count(list2, list1[i])

\* s.strip()
strip(s) ==
    LET cs == Chars[s]
        keep == {i \in DOMAIN cs : cs[i] # " "}
    IN  IF keep = {} THEN ""
        ELSE TokenOf(SubSeq(cs, CHOOSE i \in keep : \A j \in keep : i <= j,
                                CHOOSE i \in keep : \A j \in keep : i >= j))

(***************************************************************************)
(* tsv_csv_tools.py                                                        *)
(***************************************************************************)
\* The inner loop of _build_column_mapping: the first unused column of have
\* named name, 0 when there is none.
FirstUnusedColumn(name, have, used) ==
    LET hits == {j \in DOMAIN have : j \notin used /\ strip(have[j]) = strip(name)}
    IN  IF hits = {} THEN 0 ELSE CHOOSE j \in hits : \A k \in hits : j <= k

RECURSIVE build_mapping_from(_, _, _, _, _)
build_mapping_from(n, wanted, have, used, mapping) ==
    IF n > Len(wanted) THEN [ok |-> TRUE, mapping |-> mapping]
    ELSE LET idx == FirstUnusedColumn(wanted[n], have, used)
         IN  IF idx = 0 THEN [ok |-> FALSE, mapping |-> <<>>]
             ELSE build_mapping_from(n + 1, wanted, have, used \cup {idx},
                                     Append(mapping, idx))

\* _build_column_mapping: ok = FALSE stands for None.
build_column_mapping(expected_header, actual_header) ==
    IF Len(expected_header) # Len(actual_header)
    THEN [ok |-> FALSE, mapping |-> <<>>]
    ELSE build_mapping_from(1, expected_header, actual_header, {}, <<>>)

reorder_row(row, mapping) ==
    [k \in DOMAIN mapping |-> IF mapping[k] <= Len(row) THEN row[mapping[k]] ELSE ""]

reorder_with(actual_array, m) ==
    IF ~m.ok THEN actual_array
    ELSE [r \in DOMAIN actual_array |-> reorder_row(actual_array[r], m.mapping)]

\* _reorder_columns_to_expected
reorder_columns_to_expected(expected_array, actual_array) ==
    IF expected_array = <<>> \/ actual_array = <<>> THEN actual_array
    ELSE IF ~SortedEqual(expected_array[1], actual_array[1]) THEN actual_array
    ELSE reorder_with(actual_array,
                      build_column_mapping(expected_array[1], actual_array[1]))

(***************************************************************************)
(* The comparison functions mutate map_bnodes; here they take and return   *)
(* the record st = [map, pairs]: map is map_bnodes, pairs the history of   *)
(* the blank-node pairs <<value1, value2>> that compared equal. A function *)
(* that goes on with the result of a call takes that result as its first   *)
(* parameter.                                                              *)
(***************************************************************************)
IsBnodeLabel(value) == Len(Chars[value]) > 1 /\ Chars[value][1] = "_"

\* map.get(key) == value
MapGet(map, key, value) == key \in DOMAIN map /\ map[key] = value

Verdict(eq, st) == [eq |-> eq, map |-> st.map, pairs |-> st.pairs]

compare_values(value1, value2, use_config, alias, st) ==
    IF IsBnodeLabel(value1) /\ IsBnodeLabel(value2)
    THEN IF value1 \notin DOMAIN st.map /\ value2 \notin DOMAIN st.map
         THEN [eq |-> TRUE,
               map |-> (value2 :> value1) @@ (value1 :> value2) @@ st.map,
               pairs |-> st.pairs \cup {<<value1, value2>>}]
         ELSE IF MapGet(st.map, value1, value2) /\ MapGet(st.map, value2, value1)
         THEN [eq |-> TRUE, map |-> st.map, pairs |-> st.pairs \cup {<<value1, value2>>}]
         ELSE Verdict(FALSE, st)
    ELSE IF value1 = value2
    THEN Verdict(TRUE, st)
    ELSE IF is_number(value1) /\ is_number(value2)
    THEN Verdict(FloatEq(value1, value2), st)
    ELSE Verdict(use_config /\ (<<value1, value2>> \in alias \/ <<value2, value1>> \in alias),
                 st)

\* compare_rows: the loop over zip(row1, row2), from position k on; c is
\* what compare_values said of position k - 1.
RECURSIVE compare_rows_from(_, _, _, _, _, _)
compare_rows_from(c, k, row1, row2, use_config, alias) ==
    IF ~c.eq \/ k > Len(row1) THEN c
    ELSE compare_rows_from(compare_values(split_caret(row1[k]), split_caret(row2[k]),
                                          use_config, alias, c),
                           k + 1, row1, row2, use_config, alias)

compare_rows(row1, row2, use_config, alias, st) ==
    IF Len(row1) # Len(row2) THEN Verdict(FALSE, st)
    ELSE compare_rows_from(Verdict(TRUE, st), 1, row1, row2, use_config, alias)

\* The inner loop of compare_array: the index of the first row of
\* expected_result equal to row1 (hit, 0: none), and what the trials did to
\* the mapping; c is what compare_rows said of row j - 1. The history keeps
\* the pairs of the rows that compared equal: pairs0 is the history before
\* row1.
RECURSIVE first_equal_row(_, _, _, _, _, _, _)
first_equal_row(c, j, row1, expected_result, use_config, alias, pairs0) ==
    IF c.eq THEN [hit |-> j - 1, map |-> c.map, pairs |-> c.pairs]
    ELSE IF j > Len(expected_result) THEN [hit |-> 0, map |-> c.map, pairs |-> pairs0]
    ELSE first_equal_row(compare_rows(row1, expected_result[j], use_config, alias,
                                      [map |-> c.map, pairs |-> pairs0]),
                         j + 1, row1, expected_result, use_config, alias, pairs0)

\* result_copy.remove(row1); expected_result_copy.remove(row2_delete), at
\* the indexes a and e of the two rows (0: not in the list, ValueError).
remove_both(result_copy, expected_result_copy, a, e, st) ==
    [result_copy |-> IF a = 0 THEN result_copy ELSE RemoveAt(result_copy, a),
     expected_result_copy |-> IF a = 0 \/ e = 0 THEN expected_result_copy
                              ELSE RemoveAt(expected_result_copy, e),
     map |-> st.map, pairs |-> st.pairs, raised |-> (a = 0 \/ e = 0)]

\* One round of the outer loop of compare_array, for row1; f is what the
\* inner loop found; s is the state of the pass so far.
compare_array_round(f, row1, expected_result, s) ==
    IF f.hit = 0
    THEN [result_copy |-> s.result_copy, expected_result_copy |-> s.expected_result_copy,
          map |-> f.map, pairs |-> f.pairs, raised |-> FALSE]
    ELSE remove_both(s.result_copy, s.expected_result_copy,
                     IndexOf(s.result_copy, row1),
                     IndexOf(s.expected_result_copy, expected_result[f.hit]), f)

\* The outer loop of compare_array from row i of result on; s is the state
\* of the pass after row i - 1: [result_copy, expected_result_copy, map,
\* pairs, raised], raised meaning that a list.remove(x) found no x.
RECURSIVE compare_array_from(_, _, _, _, _, _)
compare_array_from(s, i, expected_result, result, use_config, alias) ==
    IF s.raised \/ i > Len(result) THEN s
    ELSE compare_array_from(
             compare_array_round(
                 first_equal_row(Verdict(FALSE, s), 1, result[i], expected_result,
                                 use_config, alias, s.pairs),
                 result[i], expected_result, s),
             i + 1, expected_result, result, use_config, alias)

compare_array(expected_result, result, result_copy, expected_result_copy, use_config, alias, st) ==
    compare_array_from([result_copy |-> result_copy,
                        expected_result_copy |-> expected_result_copy,
                        map |-> st.map, pairs |-> st.pairs, raised |-> FALSE],
                       1, expected_result, result, use_config, alias)

(***************************************************************************)
(* compare_sv as a state machine. The two payloads are taken as            *)
(* convert_csv_tsv_to_array leaves them: a header row and data rows, with  *)
(* no blank row.                                                           *)
(***************************************************************************)
MaxRows == 2

SvHeaders == {<<"x", "y">>, <<"y", "x">>}

\* Data rows, written in the column order x, y.
SvRows ==
    {<<"_:a", "1">>, <<"_:a", "2">>, <<"_:b", "1">>, <<"_:b", "2">>,
     <<"int", "1">>, <<"int", "1.0^^d">>, <<"integer", "1">>}

AliasTables == {{}, {<<"int", "integer">>, <<"1", "2">>}}

SeqsUpTo(S, n) == UNION {[1..k -> S] : k \in 0..n}

\* The row written in the column order of header.
InColumnOrder(row, header) ==
    [k \in DOMAIN header |-> row[IndexOf(<<"x", "y">>, header[k])]]

SvIdle ==
    /\ svPc = "idle"
    /\ svAlias = {}
    /\ svExpected = <<>>
    /\ svActual = <<>>
    /\ svActualCopy = <<>>
    /\ svExpectedCopy = <<>>
    /\ svActualRed = <<>>
    /\ svExpectedRed = <<>>
    /\ svMap = <<>>
    /\ svPairs = {}
    /\ svStatus = NOT_TESTED
    /\ svError = NoError

\* compare_sv, lines 279-284
SvInit ==
    /\ svPc = "reorder"
    /\ svAlias \in AliasTables
    /\ \E rows \in SeqsUpTo(SvRows, MaxRows) :
          svExpected = <<(<<"x", "y">>)>> \o rows
    /\ \E header \in SvHeaders, rows \in SeqsUpTo(SvRows, MaxRows) :
          svActual = <<header>> \o [r \in DOMAIN rows |-> InColumnOrder(rows[r], header)]
    /\ svActualCopy = <<>>
    /\ svExpectedCopy = <<>>
    /\ svActualRed = <<>>
    /\ svExpectedRed = <<>>
    /\ svMap = <<>>
    /\ svPairs = {}
    /\ svStatus = FAILED
    /\ svError = RESULTS_NOT_THE_SAME

\* compare_sv, lines 286-292
SvReorder ==
    /\ svPc = "reorder"
    /\ svActual' = reorder_columns_to_expected(svExpected, svActual)
    /\ svActualCopy' = svActual'
    /\ svExpectedCopy' = svExpected
    /\ svPc' = "strict"
    /\ UNCHANGED <<svAlias, svExpected, svActualRed, svExpectedRed, svMap, svPairs,
                   svStatus, svError, svOthers>>

\* compare_sv, lines 294-301: the strict pass, r being what compare_array
\* left
SvAfterStrict(r) ==
    /\ svActualCopy' = r.result_copy
    /\ svExpectedCopy' = r.expected_result_copy
    /\ svMap' = r.map
    /\ svPairs' = r.pairs
    /\ svPc' = IF r.raised THEN "raised" ELSE "classify"

SvStrictPass ==
    /\ svPc = "strict"
    /\ SvAfterStrict(compare_array(svExpected, svActual, svActualCopy, svExpectedCopy,
                                   FALSE, svAlias, [map |-> svMap, pairs |-> svPairs]))
    /\ UNCHANGED <<svAlias, svExpected, svActual, svActualRed, svExpectedRed,
                   svStatus, svError, svOthers>>

\* compare_sv, lines 307-320: after the lenient pass, r being what
\* compare_array left
SvAfterLenient(r) ==
    /\ svActualRed' = r.result_copy
    /\ svExpectedRed' = r.expected_result_copy
    /\ svMap' = r.map
    /\ svPairs' = r.pairs
    /\ svPc' = IF r.raised THEN "raised" ELSE "done"
    /\ IF ~r.raised /\ Len(r.result_copy) = 0 /\ Len(r.expected_result_copy) = 0
       THEN svStatus' = INTENDED /\ svError' = INTENDED_MSG
       ELSE UNCHANGED <<svStatus, svError>>

\* compare_sv, lines 303-337: the verdict, after the lenient pass where the
\* strict pass left rows
SvClassify ==
    /\ svPc = "classify"
    /\ IF Len(svActualCopy) = 0 /\ Len(svExpectedCopy) = 0
       THEN /\ svStatus' = PASSED
            /\ svError' = NoError
            /\ svPc' = "done"
            /\ UNCHANGED <<svActualRed, svExpectedRed, svMap, svPairs>>
       ELSE SvAfterLenient(compare_array(svExpectedCopy, svActualCopy, svActualCopy,
                                         svExpectedCopy, TRUE, svAlias,
                                         [map |-> svMap, pairs |-> svPairs]))
    /\ UNCHANGED <<svAlias, svExpected, svActual, svActualCopy, svExpectedCopy, svOthers>>

SvNext == SvReorder \/ SvStrictPass \/ SvClassify

(***************************************************************************)
(* compare_json (json_tools.py). A binding is the sequence of its          *)
(* [name, field] entries in document order, a field the dict of its        *)
(* sub-keys; a document is [has_vars, vars, has_results, bindings,         *)
(* boolean]: has_vars says whether it has "head"/"vars", has_results       *)
(* whether it has "results", and boolean is NoneVal where it has none.     *)
(***************************************************************************)
NoneVal == "None"

\* config.py: the datatypes compared as numbers
number_types ==
    {"xsd:integer", "xsd:double", "xsd:decimal", "xsd:float", "xsd:int"}

\* field.get(sub_key)
FieldGet(field, sub_key) == IF sub_key \in DOMAIN field THEN field[sub_key] ELSE NoneVal

\* element[key]
ElementGet(element, key) ==
    element[CHOOSE n \in DOMAIN element : element[n].name = key].field

ElementKeys(element) == {element[n].name : n \in DOMAIN element}

\* The order in which the loop meets the sub-keys.
SubKeys == <<"type", "value", "datatype">>

BothBnode(field1, field2, sub_key) ==
    /\ FieldGet(field1, "type") = "bnode"
    /\ FieldGet(field2, "type") = "bnode"
    /\ sub_key = "value"

\* json_elements_equal: the body of the loop over sub_key; eq is FALSE
\* where the code returns False, TRUE where it goes on.
json_sub_key_equal(field1, field2, sub_key, lenient, alias, st) ==
    IF FieldGet(field1, sub_key) = FieldGet(field2, sub_key)
    THEN [eq |-> TRUE, map |-> st.map,
          pairs |-> IF BothBnode(field1, field2, sub_key)
                    THEN st.pairs \cup {<<field1.value, field2.value>>}
                    ELSE st.pairs]
    ELSE IF /\ BothBnode(field1, field2, sub_key)
            /\ field1.value \notin DOMAIN st.map
            /\ field2.value \notin DOMAIN st.map
    THEN [eq |-> TRUE,
          map |-> (field2.value :> field1.value) @@ (field1.value :> field2.value) @@ st.map,
          pairs |-> st.pairs \cup {<<field1.value, field2.value>>}]
    ELSE IF /\ BothBnode(field1, field2, sub_key)
            /\ MapGet(st.map, field1.value, field2.value)
            /\ MapGet(st.map, field2.value, field1.value)
    THEN [eq |-> TRUE, map |-> st.map,
          pairs |-> st.pairs \cup {<<field1.value, field2.value>>}]
    ELSE IF /\ FieldGet(field1, "datatype") \in number_types
            /\ FieldGet(field2, "datatype") \in number_types
            /\ sub_key = "value"
            /\ FloatEq(field1.value, field2.value)
    THEN Verdict(TRUE, st)
    ELSE Verdict(lenient /\ (\/ <<FieldGet(field1, sub_key), FieldGet(field2, sub_key)>> \in alias
                             \/ <<FieldGet(field2, sub_key), FieldGet(field1, sub_key)>> \in alias),
                 st)

\* The loop over the sub-keys of two fields, from SubKeys[n] on; c is the
\* verdict so far.
RECURSIVE json_fields_from(_, _, _, _, _, _)
json_fields_from(c, n, field1, field2, lenient, alias) ==
    IF ~c.eq \/ n > Len(SubKeys) THEN c
    ELSE IF SubKeys[n] \notin (DOMAIN field1 \cup DOMAIN field2)
    THEN json_fields_from(c, n + 1, field1, field2, lenient, alias)
    ELSE json_fields_from(json_sub_key_equal(field1, field2, SubKeys[n], lenient, alias, c),
                          n + 1, field1, field2, lenient, alias)

\* The loop over the keys of element1, from its entry n on.
RECURSIVE json_elements_from(_, _, _, _, _, _)
json_elements_from(c, n, element1, element2, lenient, alias) ==
    IF ~c.eq \/ n > Len(element1) THEN c
    ELSE json_elements_from(
             json_fields_from(c, 1, element1[n].field,
                              ElementGet(element2, element1[n].name), lenient, alias),
             n + 1, element1, element2, lenient, alias)

json_elements_equal(element1, element2, lenient, alias, st) ==
    IF ElementKeys(element1) # ElementKeys(element2) THEN Verdict(FALSE, st)
    ELSE json_elements_from(Verdict(TRUE, st), 1, element1, element2, lenient, alias)

\* remove_once_found: the inner loop, the index in temp_list1 of the first
\* item equal to item2 (0: none); c is the verdict on item i - 1. The
\* history keeps the pairs of the items that compared equal: pairs0 is the
\* history before item2.
RECURSIVE first_equal_item(_, _, _, _, _, _, _)
first_equal_item(c, i, temp_list1, item2, lenient, alias, pairs0) ==
    IF c.eq THEN [hit |-> i - 1, map |-> c.map, pairs |-> c.pairs]
    ELSE IF i > Len(temp_list1) THEN [hit |-> 0, map |-> c.map, pairs |-> pairs0]
    ELSE first_equal_item(json_elements_equal(temp_list1[i], item2, lenient, alias,
                                              [map |-> c.map, pairs |-> pairs0]),
                          i + 1, temp_list1, item2, lenient, alias, pairs0)

\* temp_list1.pop(i) after the inner loop's hit f
pop_found(f, temp_list1) ==
    [list |-> IF f.hit = 0 THEN temp_list1 ELSE RemoveAt(temp_list1, f.hit),
     map |-> f.map, pairs |-> f.pairs]

\* remove_once_found: the outer loop from item j of list2 on; s is
\* [list, map, pairs] after item j - 1, list being temp_list1.
RECURSIVE remove_once_from(_, _, _, _, _)
remove_once_from(s, j, list2, lenient, alias) ==
    IF j > Len(list2) THEN s
    ELSE remove_once_from(
             pop_found(first_equal_item(Verdict(FALSE, s), 1, s.list, list2[j],
                                        lenient, alias, s.pairs),
                       s.list),
             j + 1, list2, lenient, alias)

remove_once_found(list1, list2, lenient, alias, st) ==
    remove_once_from([list |-> list1, map |-> st.map, pairs |-> st.pairs], 1, list2,
                     lenient, alias)


(***************************************************************************)
(* compare_xml (xml_tools.py). An element is [tag, attrib, text, tail,     *)
(* children], attrib being [name, datatype, lang]; NoneVal stands for a    *)
(* text, tail or attribute the element does not have. Tags and datatypes   *)
(* are written without their namespace.                                    *)
(***************************************************************************)
XSDstring == "xsd:string"

\* str.lower(): "EN" is the one token with upper-case letters.
Lower(s) == IF s = "EN" THEN "en" ELSE s

InAlias(a, b, alias) == <<a, b>> \in alias \/ <<b, a>> \in alias

\* xml_elements_equal, lines 192-218: the attributes differ and the code
\* returns False for it.
AttribMismatch(attrib1, attrib2, lenient, alias) ==
    IF ~(/\ (attrib1.datatype # NoneVal \/ attrib2.datatype # XSDstring)
         /\ (attrib2.datatype # NoneVal \/ attrib1.datatype # XSDstring))
    THEN FALSE
    ELSE IF attrib1.datatype = NoneVal /\ attrib2.datatype = NoneVal
    THEN IF attrib1.lang # NoneVal /\ attrib2.lang # NoneVal
         THEN Lower(attrib1.lang) # Lower(attrib2.lang)
         ELSE TRUE
    ELSE ~lenient \/ ~InAlias(attrib1.datatype, attrib2.datatype, alias)

\* xml_elements_equal, lines 228-242: the tails differ and the code returns
\* False for it.
TailMismatch(tail1, tail2) ==
    \/ /\ (tail1 # NoneVal /\ tail2 = NoneVal /\ strip(tail1) # "")
       /\ (tail2 # NoneVal /\ tail1 = NoneVal /\ strip(tail2) # "")
    \/ (tail1 # NoneVal /\ tail2 # NoneVal /\ strip(tail1) # strip(tail2))

\* xml_elements_equal, lines 244-294: the texts differ; "false" where the
\* code returns False, "bind" where it maps two new labels, "bound" where
\* the mapping agrees, "children" where it goes on to the children.
TextVerdict(element1, element2, numeric, lenient, alias, map) ==
    IF element1.tag = "bnode"
    THEN IF element1.text \notin DOMAIN map /\ element2.text \notin DOMAIN map
         THEN "bind"
         ELSE IF /\ MapGet(map, element1.text, element2.text)
                 /\ MapGet(map, element2.text, element1.text)
         THEN "bound"
         ELSE "false"
    ELSE IF \/ (element1.text = NoneVal /\ strip(element2.text) = "")
            \/ (element2.text = NoneVal /\ strip(element1.text) = "")
    THEN "children"
    ELSE IF element1.text = NoneVal \/ element2.text = NoneVal
    THEN "false"
    ELSE IF strip(element1.text) = strip(element2.text)
    THEN "children"
    ELSE IF numeric /\ FloatEq(element1.text, element2.text)
    THEN "children"
    ELSE IF ~lenient \/ ~InAlias(element1.text, element2.text, alias)
    THEN "false"
    ELSE "children"

\* xml_elements_equal, lines 184-294: everything before the children.
xml_shallow(element1, element2, lenient, alias, map) ==
    IF Len(element1.children) # Len(element2.children)
    THEN "false"
    ELSE IF /\ element1.tag # element2.tag
            /\ (~lenient \/ ~InAlias(element1.tag, element2.tag, alias))
    THEN "false"
    ELSE IF /\ element1.attrib # element2.attrib
            /\ AttribMismatch(element1.attrib, element2.attrib, lenient, alias)
    THEN "false"
    ELSE IF (element1.attrib.datatype \in number_types)
             # (element2.attrib.datatype \in number_types)
    THEN "false"
    ELSE IF element1.tail # element2.tail /\ TailMismatch(element1.tail, element2.tail)
    THEN "false"
    ELSE IF element1.text # element2.text
    THEN TextVerdict(element1, element2,
                     element1.attrib.datatype \in number_types
                         /\ element2.attrib.datatype \in number_types,
                     lenient, alias, map)
    ELSE IF element1.tag = "bnode" /\ element2.tag = "bnode"
    THEN "bound"
    ELSE "children"

\* The mapping and the history after xml_shallow said how.
AfterShallow(how, element1, element2, st) ==
    [map |-> IF how = "bind"
             THEN (element2.text :> element1.text) @@ (element1.text :> element2.text)
                  @@ st.map
             ELSE st.map,
     pairs |-> IF how \in {"bind", "bound"}
               THEN st.pairs \cup {<<element1.text, element2.text>>}
               ELSE st.pairs]

RECURSIVE xml_elements_equal(_, _, _, _, _)
RECURSIVE xml_any_from(_, _, _, _, _, _, _)
RECURSIVE xml_all_from(_, _, _, _, _, _)

\* any(xml_elements_equal(c1, c2, ...) for c2 in element2), from child m of
\* element2 on; c is the verdict on child m - 1, pairs0 the history before
\* c1.
xml_any_from(c, m, c1, element2, lenient, alias, pairs0) ==
    IF c.eq THEN c
    ELSE IF m > Len(element2.children)
    THEN [eq |-> FALSE, map |-> c.map, pairs |-> pairs0]
    ELSE xml_any_from(xml_elements_equal(c1, element2.children[m], lenient, alias,
                                         [map |-> c.map, pairs |-> pairs0]),
                      m + 1, c1, element2, lenient, alias, pairs0)

\* all(any(...) for c1 in element1), from child n of element1 on; c is the
\* verdict on child n - 1.
xml_all_from(c, n, element1, element2, lenient, alias) ==
    IF ~c.eq \/ n > Len(element1.children) THEN c
    ELSE xml_all_from(xml_any_from(Verdict(FALSE, c), 1, element1.children[n], element2,
                                   lenient, alias, c.pairs),
                      n + 1, element1, element2, lenient, alias)

\* xml_elements_equal after xml_shallow said how.
xml_deep(how, element1, element2, lenient, alias, st) ==
    IF how = "false" THEN Verdict(FALSE, st)
    ELSE xml_all_from(Verdict(TRUE, AfterShallow(how, element1, element2, st)), 1,
                      element1, element2, lenient, alias)

xml_elements_equal(element1, element2, lenient, alias, st) ==
    xml_deep(xml_shallow(element1, element2, lenient, alias, st.map),
             element1, element2, lenient, alias, st)

\* xml_remove_equal_elements: the inner loop, the index in children2 of the
\* first child equal to child1 (0: none); c is the verdict on child j - 1.
RECURSIVE first_equal_child(_, _, _, _, _, _, _)
first_equal_child(c, j, child1, children2, lenient, alias, pairs0) ==
    IF c.eq THEN [hit |-> j - 1, map |-> c.map, pairs |-> c.pairs]
    ELSE IF j > Len(children2) THEN [hit |-> 0, map |-> c.map, pairs |-> pairs0]
    ELSE first_equal_child(xml_elements_equal(child1, children2[j], lenient, alias,
                                              [map |-> c.map, pairs |-> pairs0]),
                           j + 1, child1, children2, lenient, alias, pairs0)

\* parent1.remove(child1); parent2.remove(child2) after the inner loop's
\* hit f; children1 collects the children of parent1 that stay.
remove_equal_round(f, child1, s) ==
    [children1 |-> IF f.hit = 0 THEN Append(s.children1, child1) ELSE s.children1,
     children2 |-> IF f.hit = 0 THEN s.children2 ELSE RemoveAt(s.children2, f.hit),
     map |-> f.map, pairs |-> f.pairs]

\* xml_remove_equal_elements: the outer loop over list(parent1), from
\* child i on.
RECURSIVE xml_remove_from(_, _, _, _, _)
xml_remove_from(s, i, parent1, lenient, alias) ==
    IF i > Len(parent1) THEN s
    ELSE xml_remove_from(
             remove_equal_round(
                 first_equal_child(Verdict(FALSE, s), 1, parent1[i], s.children2,
                                   lenient, alias, s.pairs),
                 parent1[i], s),
             i + 1, parent1, lenient, alias)

\* parent1, parent2: the children of the two parents.
xml_remove_equal_elements(parent1, parent2, lenient, alias, st) ==
    xml_remove_from([children1 |-> <<>>, children2 |-> parent2, map |-> st.map,
                     pairs |-> st.pairs],
                    1, parent1, lenient, alias)

(***************************************************************************)
(* compare_json as a state machine.                                        *)
(***************************************************************************)
Bnode(label) == [type |-> "bnode", value |-> label]
Literal(value) == [type |-> "literal", value |-> value]
TypedLiteral(value, datatype) ==
    [type |-> "literal", value |-> value, datatype |-> datatype]

\* The binding ?x = fx, ?y = fy.
Binding(fx, fy) == <<[name |-> "x", field |-> fx], [name |-> "y", field |-> fy]>>

JsRows ==
    {Binding(Bnode("_:a"), TypedLiteral("1", "xsd:integer")),
     Binding(Bnode("_:a"), TypedLiteral("2", "xsd:integer")),
     Binding(Bnode("_:b"), TypedLiteral("1", "xsd:integer")),
     Binding(Bnode("_:b"), TypedLiteral("2", "xsd:integer")),
     Binding(Literal("int"), TypedLiteral("1", "xsd:integer")),
     Binding(Literal("int"), TypedLiteral("1.0", "xsd:integer")),
     Binding(Literal("integer"), TypedLiteral("1", "xsd:integer")),
     Binding(Literal("int"), TypedLiteral("1", "xsd:int"))}

\* A document with "head"/"vars" and "results"/"bindings".
JsSelectDocs(heads) ==
    {[has_vars |-> TRUE, vars |-> v, has_results |-> TRUE, bindings |-> b,
      boolean |-> NoneVal] : v \in heads, b \in SeqsUpTo(JsRows, MaxRows)}

\* A document with "boolean", and one with a head and nothing else.
JsOtherDocs ==
    {[has_vars |-> FALSE, vars |-> <<>>, has_results |-> FALSE, bindings |-> <<>>,
      boolean |-> t] : t \in {"True", "False"}}
    \cup {[has_vars |-> TRUE, vars |-> <<"x">>, has_results |-> FALSE, bindings |-> <<>>,
           boolean |-> NoneVal]}

\* No document.
JsNoDoc ==
    [has_vars |-> FALSE, vars |-> <<>>, has_results |-> FALSE, bindings |-> <<>>,
     boolean |-> NoneVal]

JsIdle ==
    /\ jsPc = "idle"
    /\ jsAlias = {}
    /\ jsExpected = JsNoDoc
    /\ jsQuery = JsNoDoc
    /\ jsBindings1 = <<>>
    /\ jsBindings2 = <<>>
    /\ jsUnique1 = <<>>
    /\ jsUnique2 = <<>>
    /\ jsMap = <<>>
    /\ jsPairs = {}
    /\ jsStatus = NOT_TESTED
    /\ jsError = NoError

\* compare_json, lines 310-314
JsInit ==
    /\ jsPc = "head"
    /\ jsAlias \in AliasTables
    /\ jsExpected \in JsSelectDocs({<<"x", "y">>}) \cup JsOtherDocs
    /\ jsQuery \in JsSelectDocs({<<"x", "y">>, <<"y", "x">>, <<"x">>}) \cup JsOtherDocs
    /\ jsBindings1 = <<>>
    /\ jsBindings2 = <<>>
    /\ jsUnique1 = <<>>
    /\ jsUnique2 = <<>>
    /\ jsMap = <<>>
    /\ jsPairs = {}
    /\ jsStatus = FAILED
    /\ jsError = RESULTS_NOT_THE_SAME

\* [v for v in vars1 if v not in vars2]
VarsNotIn(vars1, vars2) ==
    SelectSeq(vars1, LAMBDA v : \A n \in DOMAIN vars2 : vars2[n] # v)

\* vars1, vars2 of lines 316-326
HeadVars(doc) == IF doc.has_vars THEN doc.vars ELSE <<>>

\* compare_json, lines 316-336: the variables both heads name are taken out
\* of both
JsHead ==
    /\ jsPc = "head"
    /\ jsExpected' = IF jsExpected.has_vars
                     THEN [jsExpected EXCEPT !.vars = VarsNotIn(HeadVars(jsExpected),
                                                                HeadVars(jsQuery))]
                     ELSE jsExpected
    /\ jsQuery' = IF jsQuery.has_vars
                  THEN [jsQuery EXCEPT !.vars = VarsNotIn(HeadVars(jsQuery),
                                                          HeadVars(jsExpected))]
                  ELSE jsQuery
    /\ jsPc' = IF jsQuery.has_results /\ jsExpected.has_results
               THEN "strict" ELSE "boolean"
    /\ UNCHANGED <<jsAlias, jsBindings1, jsBindings2, jsUnique1, jsUnique2, jsMap,
                   jsPairs, jsStatus, jsError, jsOthers>>

\* The pairs of a pass called with the actual side first, turned to
\* <<expected label, actual label>>.
Flip(pairs) == {<<p[2], p[1]>> : p \in pairs}

Fresh(r) == [map |-> r.map, pairs |-> {}]

\* After the two calls of remove_once_found of a pass: r1 is what the first
\* left, r2 what the second left, started from the mapping of the first.
JsAfterPass(r1, r2) ==
    /\ jsUnique1' = r1.list
    /\ jsUnique2' = r2.list
    /\ jsMap' = r2.map
    /\ jsPairs' = jsPairs \cup r1.pairs \cup Flip(r2.pairs)

JsSecondCall(r1, bindings1, bindings2, lenient) ==
    JsAfterPass(r1, remove_once_found(bindings2, bindings1, lenient, jsAlias, Fresh(r1)))

\* compare_json, lines 339-352: the strict pass
JsStrictPass ==
    /\ jsPc = "strict"
    /\ jsBindings1' = jsExpected.bindings
    /\ jsBindings2' = jsQuery.bindings
    /\ JsSecondCall(remove_once_found(jsExpected.bindings, jsQuery.bindings, FALSE,
                                      jsAlias, [map |-> jsMap, pairs |-> {}]),
                    jsExpected.bindings, jsQuery.bindings, FALSE)
    /\ jsExpected' = [jsExpected EXCEPT !.bindings = jsUnique1']
    /\ jsQuery' = [jsQuery EXCEPT !.bindings = jsUnique2']
    /\ jsPc' = "classify"
    /\ UNCHANGED <<jsAlias, jsStatus, jsError, jsOthers>>

\* compare_json, lines 362-368: the verdict of the lenient pass
JsLenientVerdict ==
    IF Len(jsUnique1') = 0 /\ Len(jsUnique2') = 0
    THEN jsStatus' = INTENDED /\ jsError' = INTENDED_MSG
    ELSE UNCHANGED <<jsStatus, jsError>>

\* compare_json, lines 354-368: the verdict, after a lenient pass over the
\* full lists where the strict pass left something; expected["head"]["vars"]
\* raises where a document has no head
JsClassify ==
    /\ jsPc = "classify"
    /\ IF Len(jsExpected.bindings) = 0 /\ Len(jsQuery.bindings) = 0
          /\ (~jsExpected.has_vars
               \/ (Len(jsExpected.vars) = 0 /\ ~jsQuery.has_vars))
       THEN /\ jsPc' = "raised"
            /\ UNCHANGED <<jsUnique1, jsUnique2, jsMap, jsPairs, jsStatus, jsError>>
       ELSE IF /\ Len(jsExpected.bindings) = 0 /\ Len(jsQuery.bindings) = 0
               /\ Len(jsExpected.vars) = 0 /\ Len(jsQuery.vars) = 0
       THEN /\ jsStatus' = PASSED
            /\ jsError' = NoError
            /\ jsPc' = "done"
            /\ UNCHANGED <<jsUnique1, jsUnique2, jsMap, jsPairs>>
       ELSE /\ JsSecondCall(remove_once_found(jsBindings1, jsBindings2, TRUE, jsAlias,
                                             [map |-> jsMap, pairs |-> {}]),
                            jsBindings1, jsBindings2, TRUE)
            /\ JsLenientVerdict
            /\ jsPc' = "done"
    /\ UNCHANGED <<jsAlias, jsExpected, jsQuery, jsBindings1, jsBindings2, jsOthers>>

\* compare_json, lines 377-384: the boolean results; expected["boolean"]
\* raises KeyError where a document has none
JsBoolean ==
    /\ jsPc = "boolean"
    /\ IF jsExpected.boolean = NoneVal \/ jsQuery.boolean = NoneVal
       THEN /\ jsPc' = "raised"
            /\ UNCHANGED <<jsExpected, jsQuery, jsStatus, jsError>>
       ELSE IF jsExpected.boolean = jsQuery.boolean
       THEN /\ jsExpected' = [jsExpected EXCEPT !.boolean = NoneVal]
            /\ jsQuery' = [jsQuery EXCEPT !.boolean = NoneVal]
            /\ jsStatus' = PASSED
            /\ jsError' = NoError
            /\ jsPc' = "done"
       ELSE /\ jsPc' = "done"
            /\ UNCHANGED <<jsExpected, jsQuery, jsStatus, jsError>>
    /\ UNCHANGED <<jsAlias, jsBindings1, jsBindings2, jsUnique1, jsUnique2, jsMap,
                   jsPairs, jsOthers>>

JsNext == JsHead \/ JsStrictPass \/ JsClassify \/ JsBoolean

(***************************************************************************)
(* compare_xml as a state machine. ws is the white space a document has    *)
(* between its elements: " " where it is indented, NoneVal where it is     *)
(* not. The query document is always indented (toprettyxml, line 360).     *)
(***************************************************************************)
Elem(tag, attrib, text, tail, children) ==
    [tag |-> tag, attrib |-> attrib, text |-> text, tail |-> tail, children |-> children]

NoAttrib == [name |-> NoneVal, datatype |-> NoneVal, lang |-> NoneVal]

XmBnode(label, ws) == Elem("bnode", NoAttrib, label, ws, <<>>)

XmLiteral(value, datatype, ws) ==
    Elem("literal", [NoAttrib EXCEPT !.datatype = datatype], value, ws, <<>>)

XmBinding(name, value, ws) ==
    Elem("binding", [NoAttrib EXCEPT !.name = name], ws, ws, <<value>>)

XmResult(bindings, ws) == Elem("result", NoAttrib, ws, ws, bindings)

XmVariable(name, ws) == Elem("variable", [NoAttrib EXCEPT !.name = name], NoneVal, ws, <<>>)

XmRows(ws) ==
    {XmResult(<<XmBinding("x", XmBnode("_:a", ws), ws)>>, ws),
     XmResult(<<XmBinding("x", XmBnode("_:b", ws), ws)>>, ws),
     XmResult(<<XmBinding("x", XmLiteral("1", "xsd:integer", ws), ws)>>, ws),
     XmResult(<<XmBinding("x", XmLiteral("1.0", "xsd:integer", ws), ws)>>, ws),
     XmResult(<<XmBinding("x", XmLiteral("int", NoneVal, ws), ws)>>, ws),
     XmResult(<<XmBinding("x", XmLiteral("integer", NoneVal, ws), ws)>>, ws),
     XmResult(<<XmBinding("x", XmLiteral("1", "xsd:int", ws), ws)>>, ws),
     XmResult(<<XmBinding("x", XmBnode("_:a", ws), ws),
                XmBinding("y", XmBnode("_:b", ws), ws)>>, ws)}

XmHeads(ws) ==
    {<<XmVariable("x", ws), XmVariable("y", ws)>>, <<XmVariable("x", ws)>>}

\* A document with <head> and <results>.
XmSelectDocs(ws) ==
    {[has_head |-> TRUE, head |-> h, has_results |-> TRUE, results |-> r,
      boolean |-> NoneVal] : h \in XmHeads(ws), r \in SeqsUpTo(XmRows(ws), MaxRows)}

\* A document with <head> and <boolean>, one with a <head> and nothing
\* else, and one with <results> and no <head>.
XmOtherDocs(ws) ==
    {[has_head |-> TRUE, head |-> <<>>, has_results |-> FALSE, results |-> <<>>,
      boolean |-> t] : t \in {"true", "false"}}
    \cup {[has_head |-> TRUE, head |-> h, has_results |-> FALSE, results |-> <<>>,
           boolean |-> NoneVal] : h \in XmHeads(ws)}
    \cup {[has_head |-> FALSE, head |-> <<>>, has_results |-> TRUE, results |-> <<>>,
           boolean |-> NoneVal]}

XmNoDoc ==
    [has_head |-> FALSE, head |-> <<>>, has_results |-> FALSE, results |-> <<>>,
     boolean |-> NoneVal]

XmIdle ==
    /\ xmPc = "idle"
    /\ xmAlias = {}
    /\ xmExpected = XmNoDoc
    /\ xmQuery = XmNoDoc
    /\ xmMap = <<>>
    /\ xmPairs = {}
    /\ xmStatus = NOT_TESTED
    /\ xmError = NoError

\* compare_xml, lines 359-365
XmInit ==
    /\ xmPc = "head"
    /\ xmAlias \in AliasTables
    /\ \E ws \in {NoneVal, " "} : xmExpected \in XmSelectDocs(ws) \cup XmOtherDocs(ws)
    /\ xmQuery \in XmSelectDocs(" ") \cup XmOtherDocs(" ")
    /\ xmMap = <<>>
    /\ xmPairs = {}
    /\ xmStatus = FAILED
    /\ xmError = RESULTS_NOT_THE_SAME

\* After xml_remove_equal_elements(head1, head2, False, ...), r being what
\* it left
XmAfterHead(r) ==
    /\ xmExpected' = [xmExpected EXCEPT !.head = r.children1]
    /\ xmQuery' = [xmQuery EXCEPT !.head = r.children2]
    /\ xmMap' = r.map
    /\ xmPairs' = r.pairs

\* compare_xml, lines 367-378: equal <variable> elements leave both heads
XmHead ==
    /\ xmPc = "head"
    /\ IF xmExpected.has_head /\ xmQuery.has_head
       THEN XmAfterHead(xml_remove_equal_elements(xmExpected.head, xmQuery.head, FALSE,
                                                  xmAlias,
                                                  [map |-> xmMap, pairs |-> xmPairs]))
       ELSE UNCHANGED <<xmExpected, xmQuery, xmMap, xmPairs>>
    /\ xmPc' = "boolean"
    /\ UNCHANGED <<xmAlias, xmStatus, xmError, xmOthers>>

\* compare_xml, lines 380-393: equal <boolean> elements leave both trees
XmBoolean ==
    /\ xmPc = "boolean"
    /\ IF /\ xmExpected.boolean # NoneVal
          /\ xmQuery.boolean # NoneVal
          /\ xmExpected.boolean = xmQuery.boolean
       THEN /\ xmExpected' = [xmExpected EXCEPT !.boolean = NoneVal]
            /\ xmQuery' = [xmQuery EXCEPT !.boolean = NoneVal]
       ELSE UNCHANGED <<xmExpected, xmQuery>>
    /\ xmPc' = "results"
    /\ UNCHANGED <<xmAlias, xmMap, xmPairs, xmStatus, xmError, xmOthers>>

\* After xml_remove_equal_elements(results1, results2, ...), r being what
\* it left
XmAfterResults(r) ==
    /\ xmExpected' = [xmExpected EXCEPT !.results = r.children1]
    /\ xmQuery' = [xmQuery EXCEPT !.results = r.children2]
    /\ xmMap' = r.map
    /\ xmPairs' = r.pairs

\* compare_xml, lines 395-408: the strict pass over <results>
XmStrictPass ==
    /\ xmPc = "results"
    /\ IF xmExpected.has_results /\ xmQuery.has_results
       THEN XmAfterResults(xml_remove_equal_elements(xmExpected.results, xmQuery.results,
                                                     FALSE, xmAlias,
                                                     [map |-> xmMap, pairs |-> xmPairs]))
       ELSE UNCHANGED <<xmExpected, xmQuery, xmMap, xmPairs>>
    /\ xmPc' = "classify"
    /\ UNCHANGED <<xmAlias, xmStatus, xmError, xmOthers>>

BothResults == xmExpected.has_results /\ xmQuery.has_results

BothResultsEmpty ==
    BothResults /\ Len(xmExpected.results) = 0 /\ Len(xmQuery.results) = 0

\* compare_xml, lines 416-421: len(list(head1)) or len(list(head2)) raises
\* TypeError, the head being None
HeadRaises ==
    /\ BothResultsEmpty
    /\ \/ ~xmExpected.has_head
       \/ (Len(xmExpected.head) = 0 /\ ~xmQuery.has_head)

\* compare_xml, lines 416-422: the condition of Passed
NothingLeft ==
    \/ /\ BothResultsEmpty
       /\ Len(xmExpected.head) = 0 /\ Len(xmQuery.head) = 0
    \/ /\ ~xmExpected.has_results /\ ~xmQuery.has_results
       /\ ~xmExpected.has_head /\ ~xmQuery.has_head
       /\ xmExpected.boolean = NoneVal /\ xmQuery.boolean = NoneVal

\* compare_xml, lines 426-437: the verdict of the lenient pass, r being what
\* it left
XmAfterLenient(r) ==
    /\ XmAfterResults(r)
    /\ IF Len(r.children1) = 0 /\ Len(r.children2) = 0
       THEN xmStatus' = INTENDED /\ xmError' = INTENDED_MSG
       ELSE UNCHANGED <<xmStatus, xmError>>

\* compare_xml, lines 416-440: the verdict
XmClassify ==
    /\ xmPc = "classify"
    /\ IF HeadRaises
       THEN /\ xmPc' = "raised"
            /\ UNCHANGED <<xmExpected, xmQuery, xmMap, xmPairs, xmStatus, xmError>>
       ELSE IF NothingLeft
       THEN /\ xmStatus' = PASSED
            /\ xmError' = NoError
            /\ xmPc' = "done"
            /\ UNCHANGED <<xmExpected, xmQuery, xmMap, xmPairs>>
       ELSE IF BothResults
       THEN /\ XmAfterLenient(xml_remove_equal_elements(
                                  xmExpected.results, xmQuery.results, TRUE, xmAlias,
                                  [map |-> xmMap, pairs |-> xmPairs]))
            /\ xmPc' = "done"
       ELSE IF xmExpected.boolean = NoneVal /\ xmQuery.boolean = NoneVal
       THEN /\ xmStatus' = PASSED
            /\ xmError' = NoError
            /\ xmPc' = "done"
            /\ UNCHANGED <<xmExpected, xmQuery, xmMap, xmPairs>>
       ELSE /\ xmPc' = "done"
            /\ UNCHANGED <<xmExpected, xmQuery, xmMap, xmPairs, xmStatus, xmError>>
    /\ UNCHANGED <<xmAlias, xmOthers>>

XmNext == XmHead \/ XmBoolean \/ XmStrictPass \/ XmClassify

(***************************************************************************)
(* TestSuite.run (testsuite.py). The engine and the comparators are taken  *)
(* by what they can answer: a setup outcome, a response, a verdict or an   *)
(* exception.                                                              *)
(***************************************************************************)
MaxTests == 2

\* TestSuite.run: the order of the kinds
KindOrder == <<"query", "format", "update", "syntax", "protocol", "graphstoreprotocol">>

KindIndex(kind) == CHOOSE k \in DOMAIN KindOrder : KindOrder[k] = kind

\* The tests of one kind; group numbers the graph group of the test.
TestsOfKind(kind, type_names, comments, result_formats) ==
    {[kind |-> kind, type_name |-> n, comment |-> c, result_format |-> f, group |-> g] :
        n \in type_names, c \in comments, f \in result_formats, g \in 1..MaxTests}

TestObjects ==
    TestsOfKind("query", {"QueryEvaluationTest"}, {FALSE}, {"csv", "ttl", "other"})
    \cup TestsOfKind("format", {"CSVResultFormatTest"}, {FALSE}, {"csv", "ttl", "other"})
    \cup TestsOfKind("update", {"UpdateEvaluationTest"}, {FALSE}, {""})
    \cup TestsOfKind("syntax", {"PositiveSyntaxTest11", "NegativeSyntaxTest11",
                                "PositiveUpdateSyntaxTest11",
                                "NegativeUpdateSyntaxTest11"}, {FALSE}, {""})
    \cup TestsOfKind("protocol", {"ProtocolTest"}, {FALSE, TRUE}, {""})
    \cup TestsOfKind("graphstoreprotocol", {"GraphStoreProtocolTest"}, {FALSE, TRUE}, {""})

\* The kinds come in the order of run(), the tests of a group one after
\* another, and the groups are numbered as they come.
InRunOrder(tests) ==
    /\ tests # <<>> => tests[1].group = 1
    /\ \A i \in 2..Len(tests) :
          \/ tests[i].kind = tests[i - 1].kind /\ tests[i].group = tests[i - 1].group
          \/ /\ KindIndex(tests[i].kind) >= KindIndex(tests[i - 1].kind)
             /\ tests[i].group = tests[i - 1].group + 1

TestsOfGroup(g) == {i \in DOMAIN suTests : suTests[i].group = g}

LastOfGroup(i) == i = Len(suTests) \/ suTests[i + 1].group # suTests[i].group

\* The first test after the group of test i.
NextGroupStart(i) ==
    CHOOSE j \in (i + 1)..(Len(suTests) + 1) :
        /\ j = Len(suTests) + 1 \/ suTests[j].group # suTests[i].group
        /\ \A k \in (i + 1)..(j - 1) : suTests[k].group = suTests[i].group

\* The first test after the tests of the kind of test i.
NextKindStart(i) ==
    CHOOSE j \in (i + 1)..(Len(suTests) + 1) :
        /\ j = Len(suTests) + 1 \/ suTests[j].kind # suTests[i].kind
        /\ \A k \in (i + 1)..(j - 1) : suTests[k].kind = suTests[i].kind

\* ErrorMessage.is_query_error
is_query_error(error) ==
    error \in {QUERY_EXCEPTION, QUERY_ERROR, REQUEST_ERROR, NOT_SUPPORTED,
               CONTENT_TYPE_NOT_SUPPORTED}

\* What the engine answers to a query or an update: the status code, the
\* phrases its body holds, and whether the body is a JSON object with the
\* key "exception".
Responses ==
    {[code |-> 200, says |-> {}, json |-> FALSE]}
    \cup {r \in [code : {500},
                  says : {{"exception"}, {"HTTP Request"}, {"not supported"},
                          {"not supported", "content type"}, {}},
                  json : BOOLEAN] : r.json => "exception" \in r.says}

\* process_failed_response: json.loads(...)["exception"] raises
FailedResponseRaises(response) == "exception" \in response.says /\ ~response.json

\* process_failed_response: error_type
FailedResponseError(response) ==
    IF "exception" \in response.says THEN QUERY_EXCEPTION
    ELSE IF "HTTP Request" \in response.says THEN REQUEST_ERROR
    ELSE IF "not supported" \in response.says
    THEN IF "content type" \in response.says THEN CONTENT_TYPE_NOT_SUPPORTED
         ELSE NOT_SUPPORTED
    ELSE QUERY_ERROR

VerdictOf(status, error) == [status |-> status, error |-> error, raised |-> FALSE]

Raised == [status |-> FAILED, error |-> RESULTS_NOT_THE_SAME, raised |-> TRUE]

\* A Turtle payload: syntax is "ok" where rdflib parses it, "needs_prefix"
\* where it parses once the foaf: and v: prefixes are declared, "bad"
\* otherwise; graph is the set of its triples (no blank nodes).
TtlPayloads ==
    [syntax : {"ok", "needs_prefix", "bad"}, graph : {{}, {"t1"}, {"t2"}}]

\* The empty string as a Turtle payload.
EmptyTtl == [syntax |-> "ok", graph |-> {}]

\* compare_ttl (rdf_tools.py): status and error_type
compare_ttl(expected_ttl, query_ttl) ==
    IF expected_ttl.syntax = "bad" THEN VerdictOf(NOT_TESTED, FORMAT_ERROR)
    ELSE IF query_ttl.syntax # "ok" THEN VerdictOf(FAILED, FORMAT_ERROR)
    ELSE IF expected_ttl.graph = query_ttl.graph THEN VerdictOf(PASSED, NoError)
    ELSE VerdictOf(FAILED, RESULTS_NOT_THE_SAME)

\* What compare_ttl returns.
TtlVerdicts == {compare_ttl(e, q) : e \in TtlPayloads, q \in TtlPayloads}

\* evaluate_query: what the comparator of the format returns, Raised where
\* it raises.
QueryVerdicts(result_format) ==
    IF result_format \in {"srx", "srj", "csv", "tsv"}
    THEN {VerdictOf(PASSED, NoError), VerdictOf(INTENDED, INTENDED_MSG),
          VerdictOf(FAILED, RESULTS_NOT_THE_SAME), Raised}
    ELSE IF result_format = "ttl" THEN TtlVerdicts
    ELSE {VerdictOf(FAILED, RESULTS_NOT_THE_SAME)}

\* What run_protocol_test returns, Raised where it raises.
ProtocolVerdicts ==
    {VerdictOf(PASSED, NoError), VerdictOf(FAILED, RESULTS_NOT_THE_SAME), Raised}

\* The verdict on a response that is not 200.
FailedVerdict(response) ==
    IF FailedResponseRaises(response) THEN Raised
    ELSE VerdictOf(FAILED, FailedResponseError(response))

\* No setup was called yet.
NothingMet == [engine |-> "down", last |-> "none"]

\* prepare_test_environment without the cleanup of line 166
SetupAsItComes(engine, last) == [engine |-> engine, last |-> last]

SuIdle ==
    /\ suPc = "idle"
    /\ suTests = <<>>
    /\ suNext = 1
    /\ suStep = "prepare"
    /\ suStatus = <<>>
    /\ suError = <<>>
    /\ suEngine = "down"
    /\ suWrites = <<>>
    /\ suSetup = <<>>
    /\ suLast = "none"
    /\ suIntr = FALSE
    /\ suCode = <<>>
    /\ suMet = NothingMet

\* TestSuite.__init__ and TestObject.__init__
SuInit ==
    /\ suPc = "run"
    /\ suTests \in {tests \in SeqsUpTo(TestObjects, MaxTests) : InRunOrder(tests)}
    /\ suNext = 1
    /\ suStep = "prepare"
    /\ suStatus = [i \in DOMAIN suTests |-> NOT_TESTED]
    /\ suError = [i \in DOMAIN suTests |-> NoError]
    /\ suEngine = "down"
    /\ suWrites = [i \in DOMAIN suTests |-> 0]
    /\ suSetup = [g \in 1..MaxTests |-> "none"]
    /\ suLast = "none"
    /\ suIntr = FALSE
    /\ suCode = [i \in DOMAIN suTests |-> 0]
    /\ suMet = NothingMet

\* update_graph_status(list_of_tests, status, error_type), called n times
UpdateGraphStatus(list_of_tests, status, error, n) ==
    /\ suStatus' = [i \in DOMAIN suStatus |->
                       IF i \in list_of_tests THEN status ELSE suStatus[i]]
    /\ suError' = [i \in DOMAIN suError |->
                      IF i \in list_of_tests THEN error ELSE suError[i]]
    /\ suWrites' = [i \in DOMAIN suWrites |->
                       IF i \in list_of_tests THEN suWrites[i] + n ELSE suWrites[i]]

\* The test at suNext ends with verdict v, written n times; where v is an
\* exception it leaves run().
Classify(v, n) ==
    IF v.raised
    THEN /\ suPc' = "crashed"
         /\ UNCHANGED <<suStatus, suError, suWrites>>
    ELSE /\ suPc' = suPc
         /\ UpdateGraphStatus({suNext}, v.status, v.error, n)

\* The loops move on from the test at suNext, stay where an exception left
\* run(); within is the step that follows a test, after the one that
\* follows the last test of a group.
MoveOn(v, within, after) ==
    IF v.raised THEN UNCHANGED <<suNext, suStep>>
    ELSE /\ suNext' = suNext + 1
         /\ suStep' = IF LastOfGroup(suNext) THEN after ELSE within

\* engine_manager.cleanup after the test that ended with verdict v
CleanupAfter(v) ==
    IF v.raised THEN UNCHANGED <<suEngine, suLast>>
    ELSE suEngine' = "down" /\ suLast' = "cleanup"

\* prepare_test_environment, line 166: the cleanup before the setup, as the
\* state of the engine and the last call when setup is called
CleanupBeforeSetup(engine, last) == [engine |-> "down", last |-> "cleanup"]

\* prepare_test_environment, lines 164-178, for the group of the test at
\* suNext; where it fails the loop of a group-store kind is left (break),
\* the other loops go on with the next group
SuPrepare ==
    /\ suPc = "run"
    /\ suStep = "prepare"
    /\ suNext <= Len(suTests)
    /\ \E outcome \in {"ok", "index", "server"} :
          /\ suSetup' = [suSetup EXCEPT ![suTests[suNext].group] = outcome]
          /\ suMet' = CleanupBeforeSetup(suEngine, suLast)
          /\ IF outcome = "ok"
             THEN /\ suEngine' = "live"
                  /\ suLast' = "setup"
                  /\ suStep' = "test"
                  /\ UNCHANGED <<suNext, suStatus, suError, suWrites>>
             ELSE /\ suEngine' = "down"
                  /\ suLast' = "cleanup"
                  /\ UpdateGraphStatus(TestsOfGroup(suTests[suNext].group), FAILED,
                                       SERVER_ERROR, IF outcome = "index" THEN 2 ELSE 1)
                  /\ suNext' = IF suTests[suNext].kind = "graphstoreprotocol"
                               THEN NextKindStart(suNext)
                               ELSE NextGroupStart(suNext)
                  /\ suStep' = "prepare"
    /\ UNCHANGED <<suPc, suTests, suIntr, suCode, suOthers>>

\* run_query_tests, lines 210-220: one test
SuQueryTest ==
    /\ suPc = "run"
    /\ suStep = "test"
    /\ suTests[suNext].kind \in {"query", "format"}
    /\ \E response \in Responses :
          \E v \in IF response.code = 200 THEN QueryVerdicts(suTests[suNext].result_format)
                    ELSE {FailedVerdict(response)} :
              Classify(v, 1) /\ MoveOn(v, "test", "end")
    /\ UNCHANGED <<suTests, suEngine, suSetup, suLast, suIntr, suCode, suMet, suOthers>>

\* run_update_tests, lines 241-279: one test after its environment is
\* prepared, and the cleanup that follows it
SuUpdateTest ==
    /\ suPc = "run"
    /\ suStep = "test"
    /\ suTests[suNext].kind = "update"
    /\ \E response \in Responses :
          \E v \in IF response.code = 200 THEN TtlVerdicts ELSE {FailedVerdict(response)} :
              Classify(v, 1) /\ MoveOn(v, "prepare", "prepare") /\ CleanupAfter(v)
    /\ UNCHANGED <<suTests, suSetup, suIntr, suCode, suMet, suOthers>>

\* run_syntax_tests, lines 311-318: the verdict on a negative test
NegativeVerdict(v) ==
    IF v.raised THEN v
    ELSE IF is_query_error(v.error) THEN VerdictOf(PASSED, NoError)
    ELSE VerdictOf(FAILED, EXPECTED_EXCEPTION)

\* run_syntax_tests, lines 291-318: one test
SuSyntaxTest ==
    /\ suPc = "run"
    /\ suStep = "test"
    /\ suTests[suNext].kind = "syntax"
    /\ \E response \in Responses :
          /\ suCode' = [suCode EXCEPT ![suNext] = response.code]
          /\ \E v \in {IF response.code # 200 THEN FailedVerdict(response)
                        ELSE VerdictOf(PASSED, NoError)} :
                IF suTests[suNext].type_name \in {"NegativeSyntaxTest11",
                                                  "NegativeUpdateSyntaxTest11"}
                THEN Classify(NegativeVerdict(v), 2) /\ MoveOn(v, "test", "end")
                ELSE Classify(v, 1) /\ MoveOn(v, "test", "end")
    /\ UNCHANGED <<suTests, suEngine, suSetup, suLast, suIntr, suMet, suOthers>>

\* run_protocol_tests, lines 347-370: one test after its environment is
\* prepared; the cleanup is for a test with a protocol only
SuProtocolTest ==
    /\ suPc = "run"
    /\ suStep = "test"
    /\ suTests[suNext].kind = "protocol"
    /\ IF suTests[suNext].comment
       THEN \E v \in ProtocolVerdicts :
               Classify(v, 1) /\ MoveOn(v, "prepare", "prepare") /\ CleanupAfter(v)
       ELSE /\ suNext' = suNext + 1
            /\ suStep' = "prepare"
            /\ UNCHANGED <<suPc, suStatus, suError, suWrites, suEngine, suLast>>
    /\ UNCHANGED <<suTests, suSetup, suIntr, suCode, suMet, suOthers>>

\* run_graphstore_protocol_tests, lines 383-399: one test
SuGraphstoreTest ==
    /\ suPc = "run"
    /\ suStep = "test"
    /\ suTests[suNext].kind = "graphstoreprotocol"
    /\ IF suTests[suNext].comment
       THEN \E v \in ProtocolVerdicts : Classify(v, 1) /\ MoveOn(v, "test", "end")
       ELSE /\ suNext' = suNext + 1
            /\ suStep' = IF LastOfGroup(suNext) THEN "end" ELSE "test"
            /\ UNCHANGED <<suPc, suStatus, suError, suWrites>>
    /\ UNCHANGED <<suTests, suEngine, suSetup, suLast, suIntr, suCode, suMet, suOthers>>

\* The cleanup after the tests of a group (lines 228, 326, 408)
SuGroupEnd ==
    /\ suPc = "run"
    /\ suStep = "end"
    /\ suEngine' = "down"
    /\ suLast' = "cleanup"
    /\ suStep' = "prepare"
    /\ UNCHANGED <<suPc, suTests, suNext, suStatus, suError, suWrites, suSetup, suIntr, suCode, suMet, suOthers>>

\* run, lines 429-435: the last loop is through
SuReturn ==
    /\ suPc = "run"
    /\ suStep = "prepare"
    /\ suNext > Len(suTests)
    /\ suPc' = "done"
    /\ UNCHANGED <<suTests, suNext, suStep, suStatus, suError, suEngine, suWrites,
                   suSetup, suLast, suIntr, suCode, suMet, suOthers>>

\* run, lines 436-438: KeyboardInterrupt
SuInterrupt ==
    /\ suPc = "run"
    /\ suPc' = "interrupted"
    /\ suEngine' = "down"
    /\ suLast' = "cleanup"
    /\ suIntr' = TRUE
    /\ UNCHANGED <<suTests, suNext, suStep, suStatus, suError, suWrites, suSetup,
                   suCode, suMet, suOthers>>

\* util.read_file, lines 127-131, called after the tests of a group (lines
\* 222-228, 320-326, 401-408): a KeyboardInterrupt raised while the server
\* log is read is taken by "except BaseException", the log is "", and the
\* loop goes on with the cleanup
SuInterruptReadingLog ==
    /\ suPc = "run"
    /\ suStep = "end"
    /\ suIntr' = TRUE
    /\ suEngine' = "down"
    /\ suLast' = "cleanup"
    /\ suStep' = "prepare"
    /\ UNCHANGED <<suPc, suTests, suNext, suStatus, suError, suWrites, suSetup, suCode, suMet, suOthers>>

SuNext ==
    \/ SuPrepare
    \/ SuQueryTest
    \/ SuUpdateTest
    \/ SuSyntaxTest
    \/ SuProtocolTest
    \/ SuGraphstoreTest
    \/ SuGroupEnd
    \/ SuReturn
    \/ SuInterrupt
    \/ SuInterruptReadingLog

(***************************************************************************)
(* run_protocol_test (protocol_tools.py). A section of the script is       *)
(* [uses, status_codes, content_types, body, marker]: uses says that the   *)
(* request line names $NEWPATH$, marker that the response section has the  *)
(* line "Location: $NEWPATH$", body is the Turtle text of the response     *)
(* section. A response read from the engine is [code, ctype, location,     *)
(* complete]: complete says that it ends with the blank line read_until    *)
(* waits for; what read_until returns holds the headers only. The          *)
(* connection itself is taken to succeed.                                  *)
(***************************************************************************)
MaxChain == 2

NEWPATH == "$NEWPATH$"

SomeTtl == [syntax |-> "ok", graph |-> {"t1"}]

PrSections ==
    {s \in [uses : BOOLEAN, status_codes : {{"2xx"}},
            content_types : {{}, {"text/turtle"}}, body : {EmptyTtl, SomeTtl},
            marker : BOOLEAN] :
        s.content_types = {} => s.body = EmptyTtl}

PrResponses ==
    [code : {"201", "404"}, ctype : {"text/turtle", "text/html"},
     location : {NoneVal, "/gs/new1"}, complete : BOOLEAN]

\* str.replace('$NEWPATH$', newpath), done for a GraphStoreProtocolTest only
ReplaceNewpath(type_name, s, newpath) ==
    IF type_name = "GraphStoreProtocolTest" /\ s = NEWPATH THEN newpath ELSE s

\* prepare_request: what stands for the target in the request that is sent
prepare_request(type_name, section, newpath) ==
    IF section.uses THEN ReplaceNewpath(type_name, NEWPATH, newpath) ELSE "/sparql/"

\* prepare_response: has_newpath says that response['newpath'] is set,
\* has_result that response['result'] is
prepare_response(type_name, section, newpath) ==
    [status_codes |-> section.status_codes,
     content_types |-> section.content_types,
     has_result |-> "text/turtle" \in section.content_types,
     result |-> section.body,
     has_newpath |-> section.marker /\ ReplaceNewpath(type_name, NEWPATH, newpath) = NEWPATH]

\* compare_response, lines 151-160: the pattern of a status code, x a digit
StatusCodeMatches(status_code, code) ==
    \/ status_code = code
    \/ status_code = "2xx" /\ code \in {"200", "201"}

\* compare_response, lines 188-191: group 1 of ^Location:\s*(.*), which
\* takes the carriage return that ends the header line
LocationGroup(location) ==
    IF location = "/gs/new1" THEN "/gs/new1\r" ELSE location

\* compare_response, lines 162-167: content_type_match
ContentTypeMatch(expected_response, got_response) ==
    \/ expected_response.content_types = {}
    \/ got_response.ctype \in expected_response.content_types

\* compare_response, lines 180-181: the response is compared as Turtle
TurtleCompared(expected_response, got_response, status_code_match) ==
    /\ "text/turtle" \in expected_response.content_types
    /\ status_code_match
    /\ ContentTypeMatch(expected_response, got_response)

\* compare_response, lines 169-186: result_match. The one text that
\* got_response.find meets in the headers is the empty one, and the body
\* compare_ttl is given is empty. The branch for SELECT (lines 173-179)
\* changes nothing: json.loads of the empty body raises and is passed over.
ResultMatch(expected_response, got_response, status_code_match) ==
    \/ ~expected_response.has_result
    \/ expected_response.result = EmptyTtl
    \/ /\ TurtleCompared(expected_response, got_response, status_code_match)
       /\ compare_ttl(expected_response.result, EmptyTtl).status = PASSED

\* compare_response: [matching, newpath, raised]; raised where
\* parse_chunked_response (line 182) finds no blank line to split at
compare_response(expected_response, got_response, status_code_match) ==
    [matching |-> /\ status_code_match
                  /\ ContentTypeMatch(expected_response, got_response)
                  /\ ResultMatch(expected_response, got_response, status_code_match),
     newpath |-> IF expected_response.has_newpath /\ got_response.location # NoneVal
                 THEN LocationGroup(got_response.location) ELSE "",
     raised |-> /\ TurtleCompared(expected_response, got_response, status_code_match)
                /\ ~got_response.complete]

\* any(status) in the place of all(status)
AnyOf(status) == \E k \in DOMAIN status : status[k]

\* all(status)
AllOf(status) == \A k \in DOMAIN status : status[k]

PrIdle ==
    /\ prPc = "idle"
    /\ prType = "ProtocolTest"
    /\ prScript = <<>>
    /\ prNewpath = ""
    /\ prSent = <<>>
    /\ prGot = <<>>
    /\ prMatch = <<>>
    /\ prResult = NOT_TESTED
    /\ prError = NoError

\* run_protocol_test, lines 200-214; newpath is what the callers pass
PrInit ==
    /\ prPc = "loop"
    /\ prType \in {"ProtocolTest", "GraphStoreProtocolTest"}
    /\ prScript \in {s \in SeqsUpTo(PrSections, MaxChain) : s # <<>>}
    /\ prNewpath \in {"", "/newpath-not-set"}
    /\ prSent = <<>>
    /\ prGot = <<>>
    /\ prMatch = <<>>
    /\ prResult = FAILED
    /\ prError = RESULTS_NOT_THE_SAME

\* run_protocol_test, lines 228-229, c being what compare_response returned
PrAfterCompare(c) ==
    IF c.raised
    THEN prPc' = "raised" /\ UNCHANGED <<prNewpath, prMatch>>
    ELSE /\ prPc' = "loop"
         /\ prNewpath' = c.newpath
         /\ prMatch' = Append(prMatch, c.matching)

\* run_protocol_test, lines 215-230: one request of the chain
PrRequest ==
    /\ prPc = "loop"
    /\ Len(prSent) < Len(prScript)
    /\ prSent' = Append(prSent, prepare_request(prType, prScript[Len(prSent) + 1],
                                                prNewpath))
    /\ \E tn_response \in PrResponses :
          /\ prGot' = Append(prGot, tn_response)
          /\ PrAfterCompare(compare_response(
                 prepare_response(prType, prScript[Len(prSent) + 1], prNewpath),
                 tn_response,
                 \E status_code \in prScript[Len(prSent) + 1].status_codes :
                     StatusCodeMatches(status_code, tn_response.code)))
    /\ UNCHANGED <<prType, prScript, prResult, prError, prOthers>>

\* run_protocol_test, lines 231-243
PrReturn ==
    /\ prPc = "loop"
    /\ Len(prSent) = Len(prScript)
    /\ prPc' = "done"
    /\ IF AllOf(prMatch)
       THEN prResult' = PASSED /\ prError' = NoError
       ELSE UNCHANGED <<prResult, prError>>
    /\ UNCHANGED <<prType, prScript, prNewpath, prSent, prGot, prMatch, prOthers>>

PrNext == PrRequest \/ PrReturn

(***************************************************************************)
(* parse_chunked_body (protocol_tools.py). A string is the sequence of its *)
(* characters; positions count from 0 as in the code.                      *)
(***************************************************************************)
MaxBody == 5

HexDigits == <<"0", "1", "2", "3", "4", "5", "6", "7", "8", "9",
               "a", "b", "c", "d", "e", "f">>

\* An index of a slice or of str.find as Python reads it in a string of
\* length n: counted from the end where negative, and kept within 0..n.
PyIndex(k, n) ==
    IF k < 0 THEN (IF k + n < 0 THEN 0 ELSE k + n) ELSE IF k > n THEN n ELSE k

\* s[a:b]
PySlice(s, a, b) ==
    IF PyIndex(a, Len(s)) >= PyIndex(b, Len(s)) THEN <<>>
    ELSE SubSeq(s, PyIndex(a, Len(s)) + 1, PyIndex(b, Len(s)))

\* s.find("\r\n", start)
FindCRLF(s, start) ==
    LET hits == {k \in PyIndex(start, Len(s))..(Len(s) - 2) :
                    s[k + 1] = "\r" /\ s[k + 2] = "\n"}
    IN  IF hits = {} THEN -1 ELSE CHOOSE k \in hits : \A h \in hits : k <= h

\* The digits of int(s, 16): s without the white space around it and
\* without its sign.
HexDigitsOf(cs) ==
    LET ink == {k \in DOMAIN cs : cs[k] \notin {"\r", "\n", " "}}
        lo == CHOOSE k \in ink : \A h \in ink : k <= h
        hi == CHOOSE k \in ink : \A h \in ink : k >= h
    IN  IF ink = {} THEN <<>>
        ELSE IF cs[lo] \in {"-", "+"} THEN SubSeq(cs, lo + 1, hi)
        ELSE SubSeq(cs, lo, hi)

IsNegative(cs) ==
    \E k \in DOMAIN cs : cs[k] = "-" /\ \A h \in 1..(k - 1) : cs[h] \in {"\r", "\n", " "}

RECURSIVE HexToNat(_)
HexToNat(ds) ==
    IF ds = <<>> THEN 0
    ELSE 16 * HexToNat(SubSeq(ds, 1, Len(ds) - 1))
         + (CHOOSE v \in 0..15 : HexDigits[v + 1] = ds[Len(ds)])

RECURSIVE DecToNat(_)
DecToNat(ds) ==
    IF ds = <<>> THEN 0
    ELSE 10 * DecToNat(SubSeq(ds, 1, Len(ds) - 1))
         + (CHOOSE v \in 0..9 : HexDigits[v + 1] = ds[Len(ds)])

\* int(chunk_size_str) in the place of int(chunk_size_str, 16)
IntBase10(ds, negative) ==
    IF ds = <<>> \/ \E k \in DOMAIN ds : \A v \in 1..10 : HexDigits[v] # ds[k]
    THEN [ok |-> FALSE, value |-> 0]
    ELSE [ok |-> TRUE, value |-> IF negative THEN 0 - DecToNat(ds) ELSE DecToNat(ds)]

\* int(chunk_size_str, 16): ok is FALSE where it raises ValueError
IntBase16(ds, negative) ==
    IF ds = <<>> \/ \E k \in DOMAIN ds : \A v \in DOMAIN HexDigits : HexDigits[v] # ds[k]
    THEN [ok |-> FALSE, value |-> 0]
    ELSE [ok |-> TRUE, value |-> IF negative THEN 0 - HexToNat(ds) ELSE HexToNat(ds)]

\* The hexadecimal numeral of n < 256
Hex(n) ==
    IF n < 16 THEN <<HexDigits[n + 1]>>
    ELSE <<HexDigits[(n \div 16) + 1], HexDigits[(n % 16) + 1]>>

RECURSIVE Concat(_)
Concat(chunks) ==
    IF chunks = <<>> THEN <<>> ELSE Head(chunks) \o Concat(Tail(chunks))

\* Chunked transfer encoding: <hex length> CRLF <chunk> CRLF for every
\* chunk, then the last chunk 0 CRLF CRLF and whatever follows it.
RECURSIVE EncodeChunks(_, _)
EncodeChunks(chunks, trailer) ==
    IF chunks = <<>> THEN <<"0", "\r", "\n", "\r", "\n">> \o trailer
    ELSE Hex(Len(Head(chunks))) \o <<"\r", "\n">> \o Head(chunks) \o <<"\r", "\n">>
         \o EncodeChunks(Tail(chunks), trailer)

Repeat(c, n) == [k \in 1..n |-> c]

\* The chunks that are encoded: short ones with line ends and digits in
\* them, and long ones whose length takes a letter or two digits.
ChChunkLists ==
    SeqsUpTo({c \in SeqsUpTo({"z", "0", "\r", "\n"}, 2) : c # <<>>}, 2)
    \cup {<<Repeat("z", 10)>>, <<Repeat("z", 17)>>, <<Repeat("z", 12), <<"z", "\n">>>>}

\* The bodies that are not the encoding of anything.
ChRawBodies == SeqsUpTo({"0", "1", "-", "z", "\r", "\n"}, MaxBody)

ChIdle ==
    /\ chPc = "idle"
    /\ chBody = <<>>
    /\ chPlain = [encoded |-> FALSE, s |-> <<>>]
    /\ chI = 0
    /\ chResult = <<>>
    /\ chToken = <<>>

\* parse_chunked_body, lines 114-116
ChInit ==
    /\ chPc = "loop"
    /\ \/ \E chunks \in ChChunkLists, trailer \in {<<>>, <<"1", "\r", "\n", "z">>} :
            /\ chBody = EncodeChunks(chunks, trailer)
            /\ chPlain = [encoded |-> TRUE, s |-> Concat(chunks)]
       \/ /\ chBody \in ChRawBodies
          /\ chPlain = [encoded |-> FALSE, s |-> <<>>]
    /\ chI = 0
    /\ chResult = <<>>
    /\ chToken = <<>>

\* parse_chunked_body, lines 126-141, for the chunk size n read at rn_index
ChAfterSize(n, rn_index) ==
    IF ~n.ok THEN chPc' = "raised" /\ UNCHANGED <<chI, chResult>>
    ELSE IF n.value = 0 THEN chPc' = "done" /\ UNCHANGED <<chI, chResult>>
    ELSE /\ chPc' = "loop"
         /\ chResult' = chResult \o PySlice(chBody, rn_index + 2, rn_index + 2 + n.value)
         /\ chI' = rn_index + 2 + n.value + 2

\* parse_chunked_body, lines 118-141: one round of the loop, rn_index being
\* where the next line end is
ChRound(rn_index) ==
    IF rn_index = -1
    THEN chPc' = "done" /\ UNCHANGED <<chI, chResult, chToken>>
    ELSE /\ chToken' = PySlice(chBody, chI, rn_index)
         /\ ChAfterSize(IntBase16(HexDigitsOf(chToken'), IsNegative(chToken')), rn_index)

ChChunk ==
    /\ chPc = "loop"
    /\ chI < Len(chBody)
    /\ Len(chResult) <= MaxBody + 17
    /\ ChRound(FindCRLF(chBody, chI))
    /\ UNCHANGED <<chBody, chPlain, chOthers>>

\* parse_chunked_body, lines 118 and 143: the loop ends at the end of the
\* body
ChReturn ==
    /\ chPc = "loop"
    /\ chI >= Len(chBody)
    /\ chPc' = "done"
    /\ UNCHANGED <<chBody, chPlain, chI, chResult, chToken, chOthers>>

ChNext == ChChunk \/ ChReturn

(***************************************************************************)
(* The reconciliation of two bags, as compare_sv and compare_json do it:   *)
(* for rows one call of compare_array on the two lists and their copies    *)
(* (tsv_csv_tools.py, lines 294-301), for bindings the two calls of        *)
(* remove_once_found (json_tools.py, lines 346-349), the second with the   *)
(* mapping the first left. Each reconciliation starts with map_bnodes = {} *)
(* and leaves [first, second, raised]: what is left of its first and of    *)
(* its second argument, and whether a list.remove(x) found no x.           *)
(***************************************************************************)
BgAlias == {<<"int", "integer">>, <<"1", "2">>, <<"xsd:int", "xsd:integer">>}

NotReconciled == [first |-> <<>>, second |-> <<>>, raised |-> FALSE]

EmptyMapping == [map |-> <<>>, pairs |-> {}]

\* s is what compare_array(expected_result, result, ...) left
AfterCompareArray(s) ==
    [first |-> s.expected_result_copy, second |-> s.result_copy, raised |-> s.raised]

\* r1 is what remove_once_found(list1, list2, ...) left
AfterRemoveOnceFound(r1, list1, list2, lenient) ==
    [first |-> r1.list,
     second |-> remove_once_found(list2, list1, lenient, BgAlias, Fresh(r1)).list,
     raised |-> FALSE]

Reconcile(kind, first, second, lenient) ==
    IF kind = "rows"
    THEN AfterCompareArray(compare_array(first, second, second, first, lenient, BgAlias,
                                         EmptyMapping))
    ELSE AfterRemoveOnceFound(remove_once_found(first, second, lenient, BgAlias,
                                                EmptyMapping),
                              first, second, lenient)

BgIdle ==
    /\ bgPc = "idle"
    /\ bgKind = "rows"
    /\ bgLenient = FALSE
    /\ bgA = <<>>
    /\ bgB = <<>>
    /\ bgForward = NotReconciled
    /\ bgBackward = NotReconciled

BgInit ==
    /\ bgPc = "forward"
    /\ bgLenient \in BOOLEAN
    /\ \/ bgKind = "rows" /\ bgA \in SeqsUpTo(SvRows, MaxRows)
                          /\ bgB \in SeqsUpTo(SvRows, MaxRows)
       \/ bgKind = "bindings" /\ bgA \in SeqsUpTo(JsRows, MaxRows)
                              /\ bgB \in SeqsUpTo(JsRows, MaxRows)
    /\ bgForward = NotReconciled
    /\ bgBackward = NotReconciled

\* reconciling (A, B)
BgReconcileForward ==
    /\ bgPc = "forward"
    /\ bgForward' = Reconcile(bgKind, bgA, bgB, bgLenient)
    /\ bgPc' = "backward"
    /\ UNCHANGED <<bgKind, bgLenient, bgA, bgB, bgBackward, bgOthers>>

\* reconciling (B, A)
BgReconcileBackward ==
    /\ bgPc = "backward"
    /\ bgBackward' = Reconcile(bgKind, bgB, bgA, bgLenient)
    /\ bgPc' = "done"
    /\ UNCHANGED <<bgKind, bgLenient, bgA, bgB, bgForward, bgOthers>>

BgNext == BgReconcileForward \/ BgReconcileBackward

(***************************************************************************)
(* UpdateWikidataCommand.execute (qlever/commands/update_wikidata.py),     *)
(* from the main event loop on. The stream and the endpoint are taken by   *)
(* what they can deliver: a message of some kind, an answer of some kind.  *)
(* SIGINT runs handle_ctrl_c between any two steps.                        *)
(***************************************************************************)
MaxBatches == 3

UwArgs == [batch_size : {1, 2}, wait_between_batches : {0, 2}, until : BOOLEAN]

\* What the stream delivers: kind "skip" is an event that is no message, is
\* of another topic or cannot be read (lines 280-285, 438-441); "plain" a
\* message that adds data, "delete" a delete operation, "readd" a message
\* that adds data for an entity of an earlier delete operation, "recent" a
\* message within lag_seconds of now, "late" a message at or after --until,
\* "bad_rdf" a message whose Turtle does not parse; has_id says that
\* event.last_event_id is not empty.
UwEvents ==
    [kind : {"skip", "plain", "delete", "readd", "recent", "late", "bad_rdf"},
     has_id : BOOLEAN]

\* What the endpoint answers to the update: "error" where requests.post
\* raises, the text is no JSON or holds "exception" (lines 570-592), "ok" a
\* list of statistics, "no_stats" a list without usable statistics.
UwAnswers == {"ok", "no_stats", "error"}

UwIdle ==
    /\ uwPc = "idle"
    /\ uwArgs = [batch_size |-> 1, wait_between_batches |-> 0, until |-> FALSE]
    /\ uwCtrlC = FALSE
    /\ uwFinished = FALSE
    /\ uwWait = FALSE
    /\ uwTicks = 0
    /\ uwEventId = FALSE
    /\ uwSize = 0
    /\ uwDeleted = FALSE
    /\ uwBatchCount = 0
    /\ uwElapsedSet = FALSE
    /\ uwStarted = 0
    /\ uwPressedAt = 0
    /\ uwEndedBy = "none"

\* execute, lines 184-200: before the main event loop
UwInit ==
    /\ uwPc = "connect"
    /\ uwArgs \in UwArgs
    /\ uwCtrlC = FALSE
    /\ uwFinished = FALSE
    /\ uwWait = FALSE
    /\ uwTicks = 0
    /\ uwEventId = FALSE
    /\ uwSize = 0
    /\ uwDeleted = FALSE
    /\ uwBatchCount = 0
    /\ uwElapsedSet = FALSE
    /\ uwStarted = 0
    /\ uwPressedAt = 0
    /\ uwEndedBy = "none"

\* handle_ctrl_c, lines 128-138; the history notes the batch the first
\* Ctrl+C falls into, the coming one where no batch is open
handle_ctrl_c ==
    /\ uwPc \in {"connect", "wait", "events", "assemble", "post"}
    /\ uwCtrlC' = TRUE
    /\ uwPressedAt' = IF uwCtrlC THEN uwPressedAt
                      ELSE IF uwPc = "connect" THEN uwStarted + 1
                      ELSE uwStarted
    /\ UNCHANGED <<uwPc, uwArgs, uwFinished, uwWait, uwTicks, uwEventId, uwSize,
                   uwDeleted, uwBatchCount, uwElapsedSet, uwStarted, uwEndedBy, uwOthers>>

\* execute, lines 205-264: a connection is opened and the batch variables
\* are initialised
UwConnect ==
    /\ uwPc = "connect"
    /\ uwStarted < MaxBatches
    /\ uwStarted' = uwStarted + 1
    /\ uwEventId' = FALSE
    /\ uwSize' = 0
    /\ uwDeleted' = FALSE
    /\ uwTicks' = 0
    /\ uwWait' = FALSE
    /\ uwPc' = IF uwWait THEN "wait" ELSE "events"
    /\ UNCHANGED <<uwArgs, uwCtrlC, uwFinished, uwBatchCount, uwElapsedSet,
                   uwPressedAt, uwEndedBy, uwOthers>>

\* execute, lines 265-268: one round of the wait loop
UwWaitRound ==
    /\ uwPc = "wait"
    /\ IF uwCtrlC \/ uwTicks >= uwArgs.wait_between_batches
       THEN uwPc' = "events" /\ UNCHANGED uwTicks
       ELSE uwPc' = "wait" /\ uwTicks' = uwTicks + 1
    /\ UNCHANGED <<uwArgs, uwCtrlC, uwFinished, uwWait, uwEventId, uwSize, uwDeleted,
                   uwBatchCount, uwElapsedSet, uwStarted, uwPressedAt, uwEndedBy,
                   uwOthers>>

\* execute, lines 316-451, for a message that was read: the conditions
\* that complete the batch, then the message is taken into the batch
UwMessage(event) ==
    /\ uwEventId' = event.has_id
    /\ IF event.kind = "readd" /\ uwDeleted
       THEN /\ uwPc' = "assemble" /\ uwEndedBy' = "readd"
            /\ UNCHANGED <<uwSize, uwDeleted, uwFinished>>
       ELSE IF uwSize >= uwArgs.batch_size
       THEN /\ uwPc' = "assemble" /\ uwEndedBy' = "size"
            /\ UNCHANGED <<uwSize, uwDeleted, uwFinished>>
       ELSE IF event.kind = "recent"
       THEN /\ uwPc' = "assemble" /\ uwEndedBy' = "recent"
            /\ UNCHANGED <<uwSize, uwDeleted, uwFinished>>
       ELSE IF event.kind = "late" /\ uwArgs.until /\ uwSize > 0
       THEN /\ uwPc' = "assemble" /\ uwEndedBy' = "until" /\ uwFinished' = TRUE
            /\ UNCHANGED <<uwSize, uwDeleted>>
       ELSE IF event.kind = "bad_rdf"
       THEN uwPc' = "failed" /\ UNCHANGED <<uwSize, uwDeleted, uwFinished, uwEndedBy>>
       ELSE /\ uwPc' = "events"
            /\ uwSize' = uwSize + 1
            /\ uwDeleted' = (uwDeleted \/ event.kind = "delete")
            /\ UNCHANGED <<uwFinished, uwEndedBy>>

\* execute, lines 271-451: one round of the loop over the events, and the
\* end of the stream
UwEvent ==
    /\ uwPc = "events"
    /\ \/ /\ uwCtrlC
          /\ uwPc' = "assemble"
          /\ uwEndedBy' = "ctrl_c"
          /\ UNCHANGED <<uwEventId, uwSize, uwDeleted, uwFinished>>
       \/ /\ ~uwCtrlC
          /\ \E event \in UwEvents :
                IF event.kind = "skip"
                THEN UNCHANGED <<uwPc, uwEventId, uwSize, uwDeleted, uwFinished,
                                 uwEndedBy>>
                ELSE UwMessage(event)
       \/ /\ uwPc' = "assemble"
          /\ uwEndedBy' = "stream"
          /\ UNCHANGED <<uwEventId, uwSize, uwDeleted, uwFinished>>
    /\ UNCHANGED <<uwArgs, uwCtrlC, uwWait, uwTicks, uwBatchCount, uwElapsedSet,
                   uwStarted, uwPressedAt, uwOthers>>

\* execute, lines 453-504: the statistics of the batch; delta_to_now_list[0]
\* and date_list[0] raise IndexError for a batch without a message
UwAssemble ==
    /\ uwPc = "assemble"
    /\ uwBatchCount' = uwBatchCount + 1
    /\ IF uwSize = 0
       THEN uwPc' = "raised" /\ UNCHANGED uwWait
       ELSE /\ uwPc' = "post"
            /\ uwWait' = (/\ uwArgs.wait_between_batches > 0
                          /\ uwSize < uwArgs.batch_size
                          /\ ~uwEventId)
    /\ UNCHANGED <<uwArgs, uwCtrlC, uwFinished, uwTicks, uwEventId, uwSize, uwDeleted,
                   uwElapsedSet, uwStarted, uwPressedAt, uwEndedBy, uwOthers>>

\* execute, lines 703-721, after the statistics of the answer: the totals
\* are shown (elapsed_time_s must be bound), the source is closed, and the
\* loop is left after Ctrl+C or --until
UwAfterStats(elapsed_set) ==
    /\ uwElapsedSet' = elapsed_set
    /\ uwPc' = IF ~elapsed_set THEN "raised"
               ELSE IF uwCtrlC \/ uwFinished THEN "done"
               ELSE "connect"

\* execute, lines 506-721: the update is sent; an answer that is an error
\* goes on with the next round of the main loop (continue)
UwPost ==
    /\ uwPc = "post"
    /\ \E answer \in UwAnswers :
          IF answer = "error"
          THEN uwPc' = "connect" /\ UNCHANGED uwElapsedSet
          ELSE UwAfterStats(uwElapsedSet \/ answer = "ok")
    /\ UNCHANGED <<uwArgs, uwCtrlC, uwFinished, uwWait, uwTicks, uwEventId, uwSize,
                   uwDeleted, uwBatchCount, uwStarted, uwPressedAt, uwEndedBy, uwOthers>>

UwNext == handle_ctrl_c \/ UwConnect \/ UwWaitRound \/ UwEvent \/ UwAssemble \/ UwPost

(***************************************************************************)
(* QLeverBinaryManager._start_server and _wait_for_server_startup          *)
(* (engines/qlever_binary.py). An attempt gets "200", another status code  *)
(* ("503") or a requests.exceptions.RequestException ("refused").          *)
(***************************************************************************)
max_retries == 8

WsIdle ==
    /\ wsPc = "idle"
    /\ wsAnswers = <<>>
    /\ wsSleeps = 0
    /\ wsSuccess = FALSE
    /\ wsLog = ""

\* _start_server is called
WsInit ==
    /\ wsPc = "start"
    /\ wsAnswers = <<>>
    /\ wsSleeps = 0
    /\ wsSuccess = FALSE
    /\ wsLog = ""

\* _start_server, lines 107-111: subprocess.Popen starts the server or raises
WsStart ==
    /\ wsPc = "start"
    /\ \/ wsPc' = "poll" /\ UNCHANGED <<wsSuccess, wsLog>>
       \/ /\ wsPc' = "done"
          /\ wsSuccess' = FALSE
          /\ wsLog' = "Exception executing server command"
    /\ UNCHANGED <<wsAnswers, wsSleeps, wsOthers>>

\* _wait_for_server_startup, lines 127-134: one round of the loop
WsAttempt ==
    /\ wsPc = "poll"
    /\ Len(wsAnswers) < max_retries
    /\ \E answer \in {"200", "503", "refused"} :
          /\ wsAnswers' = Append(wsAnswers, answer)
          /\ IF answer = "200"
             THEN /\ wsPc' = "done"
                  /\ wsSuccess' = FALSE
                  /\ wsLog' = "Server ready!"
                  /\ UNCHANGED wsSleeps
             ELSE /\ wsSleeps' = wsSleeps + 1
                  /\ UNCHANGED <<wsPc, wsSuccess, wsLog>>
    /\ UNCHANGED wsOthers

\* _wait_for_server_startup, line 136: the loop is through
WsGiveUp ==
    /\ wsPc = "poll"
    /\ Len(wsAnswers) = max_retries
    /\ wsPc' = "done"
    /\ wsSuccess' = FALSE
    /\ wsLog' = "Server failed to start within expected time"
    /\ UNCHANGED <<wsAnswers, wsSleeps, wsOthers>>

WsNext == WsStart \/ WsAttempt \/ WsGiveUp

(***************************************************************************)
(* prepare_request and the write of run_protocol_test (protocol_tools.py): *)
(* the body of a request and its Content-Length. A string is a sequence of *)
(* characters, "a" of one byte in UTF-8 and "e'" (e with an accent) of two.*)
(***************************************************************************)
MaxLines == 2

RqChars == {"a", "e'"}

\* '\r\n'.join(lines)
RECURSIVE JoinCRLF(_)
JoinCRLF(lines) ==
    IF lines = <<>> THEN <<>>
    ELSE IF Len(lines) = 1 THEN lines[1]
    ELSE lines[1] \o <<"\r", "\n">> \o JoinCRLF(Tail(lines))

\* prepare_request, lines 39-42: request_body
request_body(lines) == JoinCRLF(SelectSeq(lines, LAMBDA x : x # <<>>))

\* len(s.encode('utf-8'))
RECURSIVE Utf8Len(_)
Utf8Len(s) ==
    IF s = <<>> THEN 0 ELSE (IF Head(s) = "e'" THEN 2 ELSE 1) + Utf8Len(Tail(s))

\* len(s.encode(encoding)): 'utf-16' writes a byte order mark and two bytes
\* for each of these characters
EncodedLen(s, utf16) == IF utf16 THEN 2 + 2 * Len(s) ELSE Utf8Len(s)

\* prepare_request, lines 37-38 and 49: the value of Content-Length in
\* request_head; digits of the script stay as they are
ContentLength(declared, body) ==
    IF declared \in {"none", "XXX"} THEN Len(body) ELSE DecToNat(<<declared>>)

RqIdle ==
    /\ rqPc = "idle"
    /\ rqLines = <<>>
    /\ rqDeclared = "none"
    /\ rqUtf16 = FALSE
    /\ rqLength = 0
    /\ rqBody = <<>>
    /\ rqSent = 0

\* run_protocol_test, line 215: one section of the script
RqInit ==
    /\ rqPc = "prepare"
    /\ rqLines \in SeqsUpTo(SeqsUpTo(RqChars, 2), MaxLines)
    /\ rqDeclared \in {"none", "XXX", "3"}
    /\ rqUtf16 \in BOOLEAN
    /\ rqLength = 0
    /\ rqBody = <<>>
    /\ rqSent = 0

\* prepare_request, lines 36-50
RqPrepare ==
    /\ rqPc = "prepare"
    /\ rqPc' = "send"
    /\ rqBody' = request_body(rqLines) \o <<"\r", "\n">>
    /\ rqLength' = ContentLength(rqDeclared, request_body(rqLines))
    /\ UNCHANGED <<rqLines, rqDeclared, rqUtf16, rqSent, rqOthers>>

\* run_protocol_test, lines 221-225: tn.write
RqSend ==
    /\ rqPc = "send"
    /\ rqPc' = "sent"
    /\ rqSent' = EncodedLen(rqBody, rqUtf16)
    /\ UNCHANGED <<rqLines, rqDeclared, rqUtf16, rqLength, rqBody, rqOthers>>

RqNext == RqPrepare \/ RqSend

(***************************************************************************)
(* xml_elements_equal (xml_tools.py) called on two <result> elements with  *)
(* an empty map_bnodes, as xml_remove_equal_elements calls it for the      *)
(* first pair of results.                                                  *)
(***************************************************************************)
XeBindings ==
    {XmBinding("x", XmLiteral("1", "xsd:integer", " "), " "),
     XmBinding("x", XmLiteral("1.0", "xsd:integer", " "), " "),
     XmBinding("y", XmLiteral("2", "xsd:integer", " "), " "),
     XmBinding("y", XmBnode("_:a", " "), " ")}

XeIdle ==
    /\ xePc = "idle"
    /\ xeElement1 = XmResult(<<>>, " ")
    /\ xeElement2 = XmResult(<<>>, " ")
    /\ xeLenient = FALSE
    /\ xeEqual = FALSE

\* xml_remove_equal_elements, lines 325-333: the two elements of a call
XeInit ==
    /\ xePc = "call"
    /\ xeElement1 \in {XmResult(b, " ") : b \in SeqsUpTo(XeBindings, MaxRows)}
    /\ xeElement2 \in {XmResult(b, " ") : b \in SeqsUpTo(XeBindings, MaxRows)}
    /\ xeLenient \in BOOLEAN
    /\ xeEqual = FALSE

\* xml_elements_equal, lines 184-301
XeCompare ==
    /\ xePc = "call"
    /\ xePc' = "returned"
    /\ xeEqual' = xml_elements_equal(xeElement1, xeElement2, xeLenient, BgAlias,
                                     EmptyMapping).eq
    /\ UNCHANGED <<xeElement1, xeElement2, xeLenient, xeOthers>>

XeNext == XeCompare

(***************************************************************************)
(* UpdateWikidataCommand.execute (commands/update_wikidata.py): the        *)
(* triples and the entities of one batch. A message is [entity_id,         *)
(* operation, deleted, added]: deleted stands for rdf_deleted_data and     *)
(* rdf_unlinked_shared_data, added for rdf_added_data and                  *)
(* rdf_linked_shared_data; each is [present, ok, triples], present where   *)
(* the field is not None, ok where graph.parse reads it.                   *)
(***************************************************************************)
BatchSize == 3

NoData == [present |-> FALSE, ok |-> TRUE, triples |-> {}]

RdfData(triples) == [present |-> TRUE, ok |-> TRUE, triples |-> triples]

BadData == [present |-> TRUE, ok |-> FALSE, triples |-> {}]

BaMessages ==
    [entity_id : {"Q1", "Q2"}, operation : {"delete", "diff"},
     deleted : {NoData, RdfData({"t1", "t2"})},
     added : {NoData, RdfData({"t1"}), BadData}]

\* The add of a triple that leaves a delete of the same triple in place
AddKeepingDeletes(sets, triples) ==
    [insert |-> sets.insert \cup triples, delete |-> sets.delete]

\* The completion condition 1 left out
NeverDeletedBefore(message, delete_entity_ids) == FALSE

\* execute, lines 391-399: the to-be-deleted triples of a field
DeleteTriples(sets, triples) ==
    [insert |-> sets.insert \ triples, delete |-> sets.delete \cup triples]

\* execute, lines 423-431: the to-be-added triples of a field
AddTriples(sets, triples) ==
    [insert |-> sets.insert \cup triples, delete |-> sets.delete \ triples]

\* execute, lines 319-324: completion condition 1
DeletedBefore(message, delete_entity_ids) ==
    message.added.present /\ message.entity_id \in delete_entity_ids

BaIdle ==
    /\ baPc = "idle"
    /\ baInsert = {}
    /\ baDelete = {}
    /\ baDeleteIds = {}
    /\ baSize = 0
    /\ baEndedBy = "nothing"
    /\ baLog = <<>>

\* execute, lines 246-253: the batch variables
BaInit ==
    /\ baPc = "events"
    /\ baInsert = {}
    /\ baDelete = {}
    /\ baDeleteIds = {}
    /\ baSize = 0
    /\ baEndedBy = "nothing"
    /\ baLog = <<>>

\* execute, lines 368-451: the message is processed
BaProcess(message) ==
    LET after_deletes == DeleteTriples([insert |-> baInsert, delete |-> baDelete],
                                       message.deleted.triples)
        after_adds == AddTriples(after_deletes, message.added.triples)
    IN  /\ baDeleteIds' = IF message.operation = "delete"
                          THEN baDeleteIds \cup {message.entity_id} ELSE baDeleteIds
        /\ IF message.added.ok
           THEN /\ baInsert' = after_adds.insert
                /\ baDelete' = after_adds.delete
                /\ baSize' = baSize + 1
                /\ baLog' = Append(baLog, message)
                /\ UNCHANGED baPc
           ELSE /\ baPc' = "failed"
                /\ baInsert' = after_deletes.insert
                /\ baDelete' = after_deletes.delete
                /\ UNCHANGED <<baSize, baLog>>
        /\ UNCHANGED baEndedBy

\* execute, lines 271-451: one message of the stream
BaMessage ==
    /\ baPc = "events"
    /\ \E message \in BaMessages :
          IF DeletedBefore(message, baDeleteIds)
          THEN /\ baPc' = "ended" /\ baEndedBy' = "delete followed by insert"
               /\ UNCHANGED <<baInsert, baDelete, baDeleteIds, baSize, baLog>>
          ELSE IF baSize >= BatchSize
          THEN /\ baPc' = "ended" /\ baEndedBy' = "batch size"
               /\ UNCHANGED <<baInsert, baDelete, baDeleteIds, baSize, baLog>>
          ELSE BaProcess(message)
    /\ UNCHANGED baOthers

\* execute, lines 273-274 and 337-366: Ctrl+C, a message within lag_seconds
\* of now or after the until date, or the end of the stream
BaBreak ==
    /\ baPc = "events"
    /\ baPc' = "ended"
    /\ baEndedBy' = "other"
    /\ UNCHANGED <<baInsert, baDelete, baDeleteIds, baSize, baLog, baOthers>>

BaNext == BaMessage \/ BaBreak

(***************************************************************************)
(* The specifications: one component runs, the others rest.                *)
(***************************************************************************)
InitSv == SvInit /\ JsIdle /\ XmIdle /\ SuIdle /\ PrIdle /\ ChIdle /\ BgIdle /\ UwIdle /\ WsIdle /\ RqIdle /\ XeIdle /\ BaIdle

SpecSv == InitSv /\ [][SvNext]_vars

InitJson == JsInit /\ SvIdle /\ XmIdle /\ SuIdle /\ PrIdle /\ ChIdle /\ BgIdle /\ UwIdle /\ WsIdle /\ RqIdle /\ XeIdle /\ BaIdle

SpecJson == InitJson /\ [][JsNext]_vars

InitXml == XmInit /\ SvIdle /\ JsIdle /\ SuIdle /\ PrIdle /\ ChIdle /\ BgIdle /\ UwIdle /\ WsIdle /\ RqIdle /\ XeIdle /\ BaIdle

SpecXml == InitXml /\ [][XmNext]_vars

InitSuite == SuInit /\ SvIdle /\ JsIdle /\ XmIdle /\ PrIdle /\ ChIdle /\ BgIdle /\ UwIdle /\ WsIdle /\ RqIdle /\ XeIdle /\ BaIdle

SpecSuite == InitSuite /\ [][SuNext]_vars

InitProtocol == PrInit /\ SvIdle /\ JsIdle /\ XmIdle /\ SuIdle /\ ChIdle /\ BgIdle /\ UwIdle /\ WsIdle /\ RqIdle /\ XeIdle /\ BaIdle

SpecProtocol == InitProtocol /\ [][PrNext]_vars

InitChunked == ChInit /\ SvIdle /\ JsIdle /\ XmIdle /\ SuIdle /\ PrIdle /\ BgIdle /\ UwIdle /\ WsIdle /\ RqIdle /\ XeIdle /\ BaIdle

SpecChunked == InitChunked /\ [][ChNext]_vars

InitBag == BgInit /\ SvIdle /\ JsIdle /\ XmIdle /\ SuIdle /\ PrIdle /\ ChIdle /\ UwIdle /\ WsIdle /\ RqIdle /\ XeIdle /\ BaIdle

SpecBag == InitBag /\ [][BgNext]_vars

InitWikidata == UwInit /\ SvIdle /\ JsIdle /\ XmIdle /\ SuIdle /\ PrIdle /\ ChIdle /\ BgIdle /\ WsIdle /\ RqIdle /\ XeIdle /\ BaIdle

SpecWikidata == InitWikidata /\ [][UwNext]_vars

InitStartup == WsInit /\ SvIdle /\ JsIdle /\ XmIdle /\ SuIdle /\ PrIdle /\ ChIdle /\ BgIdle /\ UwIdle /\ RqIdle /\ XeIdle /\ BaIdle

SpecStartup == InitStartup /\ [][WsNext]_vars

InitRequest == RqInit /\ SvIdle /\ JsIdle /\ XmIdle /\ SuIdle /\ PrIdle /\ ChIdle /\ BgIdle /\ UwIdle /\ WsIdle /\ XeIdle /\ BaIdle

SpecRequest == InitRequest /\ [][RqNext]_vars

InitElements == XeInit /\ SvIdle /\ JsIdle /\ XmIdle /\ SuIdle /\ PrIdle /\ ChIdle /\ BgIdle /\ UwIdle /\ WsIdle /\ RqIdle /\ BaIdle

SpecElements == InitElements /\ [][XeNext]_vars

InitBatch == BaInit /\ SvIdle /\ JsIdle /\ XmIdle /\ SuIdle /\ PrIdle /\ ChIdle /\ BgIdle /\ UwIdle /\ WsIdle /\ RqIdle /\ XeIdle

SpecBatch == InitBatch /\ [][BaNext]_vars

(***************************************************************************)
(* Claims about compare_sv.                                                *)
(***************************************************************************)
SvReturned == svPc = "done"
SvEnded == svPc \in {"done", "raised"}
SvDataRows(array) == SubSeq(array, 2, Len(array))

\* C2: reconciliation in compare_sv is a one-to-one bag removal that never
\* raises: the strict pass takes as many rows from the expected copy as from
\* the actual copy, compare_sv returns a status for every pair of inputs,
\* and where actual holds a row k times and expected j < k times, k - j of
\* them stay in the actual residual and the status is not Passed.
C2_OneToOneRemoval ==
    /\ svPc # "raised"
    /\ svPc \in {"classify", "done"} =>
          Len(svActual) - Len(svActualCopy) = Len(svExpected) - Len(svExpectedCopy)
    /\ SvReturned =>
          \A r \in DOMAIN svActual :
              Count(svActual, svActual[r]) > Count(svExpected, svActual[r]) =>
                  /\ svStatus # PASSED
                  /\ Count(svActualCopy, svActual[r]) >=
                         Count(svActual, svActual[r]) - Count(svExpected, svActual[r])

\* Two cells as compare_rows hands them to compare_values.
StrictCellEq(cell1, cell2) ==
    \/ split_caret(cell1) = split_caret(cell2)
    \/ /\ is_number(split_caret(cell1))
       /\ is_number(split_caret(cell2))
       /\ FloatEq(split_caret(cell1), split_caret(cell2))

AliasOnlyCell(cell1, cell2, alias) ==
    /\ ~StrictCellEq(cell1, cell2)
    /\ \/ <<split_caret(cell1), split_caret(cell2)>> \in alias
       \/ <<split_caret(cell2), split_caret(cell1)>> \in alias

NoBnodeIn(array) ==
    \A r \in DOMAIN array : \A k \in DOMAIN array[r] : ~IsBnodeLabel(split_caret(array[r][k]))

StrictRowEq(row1, row2) ==
    Len(row1) = Len(row2) /\ \A k \in DOMAIN row1 : StrictCellEq(row1[k], row2[k])

RowPermutations(n) == {f \in [1..n -> 1..n] : \A i, j \in 1..n : f[i] = f[j] => i = j}

\* The two tables are equal as bags of rows under strict cell equality.
StrictBagEq(array1, array2) ==
    /\ Len(array1) = Len(array2)
    /\ \E f \in RowPermutations(Len(array1)) :
          \A r \in DOMAIN array1 : StrictRowEq(array1[r], array2[f[r]])

\* The tables hold no blank node, differ row by row only in cells that are
\* an alias pair (neither string-equal nor numerically equal, listed in the
\* alias table), and are not equal as bags without the alias table.
AliasOnlyDifference ==
    /\ NoBnodeIn(svExpected) /\ NoBnodeIn(svActual)
    /\ Len(svExpected) = Len(svActual)
    /\ \A r \in DOMAIN svExpected :
          /\ Len(svExpected[r]) = Len(svActual[r])
          /\ \A k \in DOMAIN svExpected[r] :
                \/ StrictCellEq(svActual[r][k], svExpected[r][k])
                \/ AliasOnlyCell(svActual[r][k], svExpected[r][k], svAlias)
    /\ ~StrictBagEq(svExpected, svActual)

\* C3 (compare_sv): where expected and actual differ only in alias pairs,
\* the strict pass leaves rows and compare_sv returns Intended, never
\* Passed; and the strict pass does not depend on the alias table.
C3_AliasOnlyThroughLenientPass ==
    /\ (SvEnded /\ svPc # "reorder" /\ AliasOnlyDifference) =>
          /\ SvReturned
          /\ svStatus = INTENDED
          /\ Len(svActualCopy) + Len(svExpectedCopy) > 0
    /\ svPc = "strict" =>
          compare_array(svExpected, svActual, svActualCopy, svExpectedCopy, FALSE,
                        svAlias, [map |-> svMap, pairs |-> svPairs])
          = compare_array(svExpected, svActual, svActualCopy, svExpectedCopy, FALSE,
                          {}, [map |-> svMap, pairs |-> svPairs])

BnodeLabels == {t \in Tokens : IsBnodeLabel(t)}

Relabel(array, f) ==
    [r \in DOMAIN array |->
        [k \in DOMAIN array[r] |->
            IF array[r][k] \in DOMAIN f THEN f[array[r][k]] ELSE array[r][k]]]

\* actual is expected up to a bijective renaming of the blank-node labels
\* and the order of the rows.
EqualUpToRelabeling(expected, actual) ==
    \E f \in [BnodeLabels -> BnodeLabels] :
        /\ \A a, b \in BnodeLabels : f[a] = f[b] => a = b
        /\ SortedEqual(Relabel(actual, f), expected)

\* C6 (compare_sv): a result that equals the expected one up to a bijective
\* renaming of blank-node labels and the order of the rows is Passed.
C6_RelabelingPasses ==
    (SvEnded /\ EqualUpToRelabeling(svExpected, svActual)) =>
        (SvReturned /\ svStatus = PASSED)

(***************************************************************************)
(* Claims about the blank-node mapping and about compare_json.             *)
(***************************************************************************)
\* No label of either side is paired with two labels of the other side.
OneToOne(pairs) ==
    \A p, q \in pairs : (p[1] = q[1]) <=> (p[2] = q[2])

\* C1: within one call of a comparator the blank-node labels that compared
\* equal form a one-to-one relation between the expected and the actual
\* side: a label matched once is never matched with another label, also
\* when the first match was between two identical labels.
C1_BnodeMappingOneToOne ==
    /\ OneToOne(svPairs)
    /\ OneToOne(jsPairs)
    /\ OneToOne(xmPairs)

\* C4: compare_json and compare_xml return Intended only where the lenient
\* pass clears everything the strict pass left, the bindings or results
\* and the head variables; with an empty alias table neither returns
\* Intended.
C4_IntendedOnlyIfAllCleared ==
    /\ (jsPc = "done" /\ jsStatus = INTENDED) =>
           /\ jsAlias # {}
           /\ Len(jsUnique1) = 0 /\ Len(jsUnique2) = 0
           /\ Len(jsExpected.vars) = 0 /\ Len(jsQuery.vars) = 0
    /\ (xmPc = "done" /\ xmStatus = INTENDED) =>
           /\ xmAlias # {}
           /\ Len(xmExpected.results) = 0 /\ Len(xmQuery.results) = 0
           /\ Len(xmExpected.head) = 0 /\ Len(xmQuery.head) = 0

\* C5: compare_xml returns Passed only where nothing is left of either
\* document: no <result>, no <variable>, no <boolean>; so an expected
\* document with a <result> against one without <results> is not Passed.
C5_PassedOnlyIfNothingLeft ==
    (xmPc = "done" /\ xmStatus = PASSED) =>
        /\ Len(xmExpected.results) = 0 /\ Len(xmQuery.results) = 0
        /\ Len(xmExpected.head) = 0 /\ Len(xmQuery.head) = 0
        /\ xmExpected.boolean = NoneVal /\ xmQuery.boolean = NoneVal

(***************************************************************************)
(* Claims about TestSuite.run.                                             *)
(***************************************************************************)
\* C7: no failure of a single test aborts the run: whatever the engine
\* answers and whatever the comparison of a payload does, no exception
\* leaves TestSuite.run().
C7_NoTestAbortsRun == suPc # "crashed"

\* C8: where the setup of a group fails, every test of the group is Failed
\* with the error of the failure: INDEX_BUILD_ERROR where the index build
\* failed, SERVER_ERROR where the index was built and the server did not
\* start.
C8_SetupFailureKind ==
    \A i \in DOMAIN suTests :
        /\ suSetup[suTests[i].group] = "index" =>
               suStatus[i] = FAILED /\ suError[i] = INDEX_BUILD_ERROR
        /\ suSetup[suTests[i].group] = "server" =>
               suStatus[i] = FAILED /\ suError[i] = SERVER_ERROR

\* C9: a setup failure ends the tests of its own group only: when run()
\* returns, the environment of every group of every kind has been set up.
C9_LaterGroupsStillRun ==
    suPc = "done" => \A i \in DOMAIN suTests : suSetup[suTests[i].group] # "none"

\* C10: once update_test_status has classified a test, no later step
\* changes its status or its error kind.
C10_ClassifiedOnce ==
    [][\A i \in DOMAIN suTests :
          suWrites[i] > 0 => (suStatus'[i] = suStatus[i] /\ suError'[i] = suError[i])]_vars

(***************************************************************************)
(* Claims about run_protocol_test.                                         *)
(***************************************************************************)
\* C11: in a chained script whose first response section has the marker
\* Location: $NEWPATH$ and whose second request names $NEWPATH$, the second
\* request is sent with the Location value of the first response read in
\* the place of $NEWPATH$.
C11_CapturedPathSubstituted ==
    (/\ Len(prSent) >= 2
     /\ prScript[1].marker
     /\ prScript[2].uses
     /\ prGot[1].location # NoneVal) =>
        prSent[2] = prGot[1].location

C13_MalformedSizeRaises ==
    (chPc \in {"loop", "done"} /\ chToken # <<>>) =>
        /\ IntBase16(HexDigitsOf(chToken), FALSE).ok
        /\ ~IsNegative(chToken)

\* C14: decoding the chunked encoding of a string gives the string back,
\* for every split of it into chunks, and the chunk of size 0 ends the
\* decoding whatever follows it.
C14_ChunkedRoundTrip ==
    chPlain.encoded =>
        /\ chPc # "raised"
        /\ chPc = "done" => chResult = chPlain.s

\* The encoding of two chunks of 12 and 2 characters, with bytes after the
\* last chunk, is decoded.
C14_Witness ==
    /\ chPc = "done"
    /\ chPlain.encoded
    /\ Len(chPlain.s) = 14
    /\ chBody[Len(chBody)] = "z"
    /\ chResult = chPlain.s

(***************************************************************************)
(* C15: bag reconciliation is symmetric. For any two bags A and B of rows  *)
(* or of bindings, reconciling (A, B) and reconciling (B, A), each started *)
(* with an empty blank-node mapping, both end, and they leave as much of A *)
(* and as much of B.                                                       *)
(***************************************************************************)
C15_ReconciliationSymmetric ==
    bgPc = "done" =>
        /\ ~bgForward.raised
        /\ ~bgBackward.raised
        /\ Len(bgForward.first) = Len(bgBackward.second)
        /\ Len(bgForward.second) = Len(bgBackward.first)

\* The same, for the reconciliations that end without an exception.
C15_SymmetricWhereNothingRaised ==
    (bgPc = "done" /\ ~bgForward.raised /\ ~bgBackward.raised) =>
        /\ Len(bgForward.first) = Len(bgBackward.second)
        /\ Len(bgForward.second) = Len(bgBackward.first)

(***************************************************************************)
(* C16: header permutation. Where the actual table is the expected table   *)
(* with its columns permuted, header row and data rows alike, the          *)
(* realignment gives the expected table back, and compare_sv, called on a  *)
(* table that realigns to the expected one, returns, and returns Passed.   *)
(***************************************************************************)
ColumnPermuted(expected, actual) ==
    \E header \in SvHeaders :
        actual = [r \in DOMAIN expected |-> InColumnOrder(expected[r], header)]

C16_HeaderPermutationPasses ==
    [][/\ (svPc = "reorder" /\ ColumnPermuted(svExpected, svActual))
             => svActual' = svExpected
       /\ (svPc' \in {"done", "raised"} /\ svActual' = svExpected)
             => (svPc' = "done" /\ svStatus' = PASSED)]_vars

\* The headers of up to three columns, names repeating, and the ways of
\* permuting three columns.
RepeatingHeaders == UNION {[1..k -> {"x", "y"}] : k \in 1..3}

ColumnOrders(k) == {p \in [1..k -> 1..k] : \A i, j \in 1..k : p[i] = p[j] => i = j}

ColumnsPermutedBy(row, p) == [i \in DOMAIN p |-> row[p[i]]]

\* The realignment of C16: _build_column_mapping maps each expected column
\* to a distinct actual column of the same name, also when names repeat.
RealignmentDistinctSameName ==
    \A h \in RepeatingHeaders : \A p \in ColumnOrders(Len(h)) :
        LET have == ColumnsPermutedBy(h, p)
            m == build_column_mapping(h, have)
        IN  /\ m.ok
            /\ Len(m.mapping) = Len(h)
            /\ \A i, j \in DOMAIN h : m.mapping[i] = m.mapping[j] => i = j
            /\ \A i \in DOMAIN h : have[m.mapping[i]] = h[i]

\* With a repeated name the realignment is no realignment: the expected
\* table x,x / 1,2 with its two columns exchanged comes back as it was.
RepeatedNameLeftAsItCame ==
    reorder_columns_to_expected(<<(<<"x", "x">>), <<"1", "2">>>>,
                                <<(<<"x", "x">>), <<"2", "1">>>>)
        = <<(<<"x", "x">>), <<"2", "1">>>>

(***************************************************************************)
(* C17: a comparator classifies. A query, format or update test whose      *)
(* status was written is Passed, Intended or Failed, never NotTested, and  *)
(* the error kind FORMAT_ERROR (a payload that did not parse) comes with   *)
(* Failed.                                                                 *)
(***************************************************************************)
C17_ComparatorClassifies ==
    \A i \in DOMAIN suTests :
        (suTests[i].kind \in {"query", "format", "update"} /\ suWrites[i] > 0) =>
            /\ suStatus[i] \in {PASSED, INTENDED, FAILED}
            /\ suError[i] = FORMAT_ERROR => suStatus[i] = FAILED

(***************************************************************************)
(* C18: a user interrupt stops the run. Once a KeyboardInterrupt was       *)
(* raised inside run(), run() has ended as interrupted with the cleanup of *)
(* the engine as its last engine call, and no step after the interrupt     *)
(* sets up an engine, runs a test or writes a status.                      *)
(***************************************************************************)
C18_InterruptStopsRun ==
    [][suIntr' =>
          /\ suPc' = "interrupted"
          /\ suLast' = "cleanup"
          /\ suEngine' = "down"
          /\ suIntr => UNCHANGED <<suNext, suSetup, suWrites, suStatus, suError>>]_vars

(***************************************************************************)
(* C19: syntax tests. Of a syntax test the engine has answered: a negative *)
(* test is Failed with EXPECTED_EXCEPTION exactly if the answer was 200,   *)
(* and Passed with no error kind exactly if it was not 200; a positive     *)
(* test is Passed exactly if the answer was 200.                           *)
(***************************************************************************)
IsNegativeSyntaxTest(i) ==
    suTests[i].type_name \in {"NegativeSyntaxTest11", "NegativeUpdateSyntaxTest11"}

SyntaxVerdictAsAnswered(i) ==
    IF IsNegativeSyntaxTest(i)
    THEN /\ (suStatus[i] = FAILED /\ suError[i] = EXPECTED_EXCEPTION) <=> suCode[i] = 200
         /\ (suStatus[i] = PASSED /\ suError[i] = NoError) <=> suCode[i] # 200
    ELSE suStatus[i] = PASSED <=> suCode[i] = 200

C19_SyntaxVerdictFollowsStatusCode ==
    \A i \in DOMAIN suTests :
        (suTests[i].kind = "syntax" /\ suCode[i] # 0) => SyntaxVerdictAsAnswered(i)

\* The same, for the tests on which process_failed_response did not raise.
C19_WhereStatusWasWritten ==
    \A i \in DOMAIN suTests :
        (suTests[i].kind = "syntax" /\ suCode[i] # 0 /\ suWrites[i] > 0)
            => SyntaxVerdictAsAnswered(i)

(***************************************************************************)
(* C20: Ctrl+C ends update-wikidata gracefully. Once Ctrl+C was pressed in *)
(* the main loop, execute() neither raises nor returns False, and no batch *)
(* is started after the one the Ctrl+C fell into.                          *)
(***************************************************************************)
C20_CtrlCEndsGracefully ==
    uwCtrlC =>
        /\ uwPc \notin {"raised", "failed"}
        /\ uwStarted <= uwPressedAt

(***************************************************************************)
(* C21: the wait between batches. Where the last batch was finished by a   *)
(* message within lag_seconds of now and wait_between_batches > 0, the     *)
(* next batch begins with the wait, and the wait ends only after           *)
(* wait_between_batches seconds or on Ctrl+C.                              *)
(***************************************************************************)
C21_WaitAfterRecentMessage ==
    [][/\ (/\ uwPc = "connect" /\ uwPc' # "connect"
           /\ uwEndedBy = "recent" /\ uwArgs.wait_between_batches > 0)
          => uwPc' = "wait"
       /\ (uwPc = "wait" /\ uwPc' = "events")
          => (uwCtrlC \/ uwTicks = uwArgs.wait_between_batches)]_vars

C28_NoEngineLiveAtReturn == suPc = "done" => suEngine = "down"

\* C27: parse_chunked_body ends on every input: a round of its loop that
\* neither returns nor raises leaves the read position further on than it
\* found it, also where the size token is negative.
C27_ReadPositionAdvances == [][(chPc = "loop" /\ chPc' = "loop") => chI' > chI]_vars

\* C30: the wait for the server's startup makes at most max_retries
\* attempts with a sleep after each that failed, returns success as soon as
\* an attempt got status 200, and returns failure, as a value, only after
\* all attempts failed.
C30_StartupWaitFaithful ==
    /\ Len(wsAnswers) <= max_retries
    /\ wsSleeps <= max_retries
    /\ wsPc = "done" =>
          /\ wsSuccess <=> (\E k \in DOMAIN wsAnswers : wsAnswers[k] = "200")
          /\ (~wsSuccess /\ wsAnswers # <<>>) => Len(wsAnswers) = max_retries

\* C24: the Content-Length of a request that prepare_request made and
\* run_protocol_test sent is the length of the body that was written after
\* the blank line, the line end the runner appends included.
C24_ContentLengthIsBodyLength == rqPc = "sent" => rqLength = rqSent

\* The three checks of a response against its section of the script: a
\* status-code pattern matches the status line, the content types are none
\* or one of them is in the response, and there is no expected body or it
\* is in the response (of the texts here only the empty one is).
ThreeChecksHold(section, got_response) ==
    /\ \E status_code \in section.status_codes :
          StatusCodeMatches(status_code, got_response.code)
    /\ section.content_types = {} \/ got_response.ctype \in section.content_types
    /\ "text/turtle" \notin section.content_types \/ section.body = EmptyTtl

\* C23: compare_response reports a match if and only if the status code,
\* the content type and the body check all hold for the response.
C23_MatchIffThreeChecks ==
    \A k \in DOMAIN prGot :
        (k \in DOMAIN prMatch /\ prMatch[k]) <=> ThreeChecksHold(prScript[k], prGot[k])

\* The children of the two elements can be paired one to one so that the
\* two of every pair are equal elements.
ChildrenPairOneToOne ==
    /\ Len(xeElement1.children) = Len(xeElement2.children)
    /\ \E p \in [DOMAIN xeElement1.children -> DOMAIN xeElement2.children] :
          /\ \A i, j \in DOMAIN p : i # j => p[i] # p[j]
          /\ \A i \in DOMAIN p :
                xml_elements_equal(xeElement1.children[i], xeElement2.children[p[i]],
                                   xeLenient, BgAlias, EmptyMapping).eq

\* C25: xml_elements_equal takes two elements for equal only if their
\* children can be paired one to one into equal pairs.
C25_ChildrenComparedAsBags == (xePc = "returned" /\ xeEqual) => ChildrenPairOneToOne

\* C26: within one batch no message that adds data for an entity is
\* processed after a delete message for the same entity.
C26_NoAddAfterDeleteInBatch ==
    \A i, j \in DOMAIN baLog :
        (i < j /\ baLog[i].operation = "delete" /\ baLog[j].added.present)
            => baLog[j].entity_id # baLog[i].entity_id

\* A message that adds data for an entity deleted earlier in the batch came
\* and completed the batch.
C26_Witness ==
    /\ baPc = "ended" /\ baEndedBy = "delete followed by insert"
    /\ \E i \in DOMAIN baLog : baLog[i].operation = "delete"

\* The last operation on triple t in the messages of log: "add", "delete",
\* or "none" where no message touched it; in a message the deletes come
\* before the adds.
RECURSIVE LastOperation(_, _)
LastOperation(log, t) ==
    IF log = <<>> THEN "none"
    ELSE IF t \in log[Len(log)].added.triples THEN "add"
    ELSE IF t \in log[Len(log)].deleted.triples THEN "delete"
    ELSE LastOperation(SubSeq(log, 1, Len(log) - 1), t)

\* C29: after every processed message insert_triples and delete_triples are
\* disjoint, and a triple is in insert_triples where its last operation was
\* an add, in delete_triples where it was a delete.
C29_LastOperationDecides ==
    baPc # "failed" =>
        /\ baInsert \cap baDelete = {}
        /\ \A t \in {"t1", "t2"} :
              /\ t \in baInsert <=> LastOperation(baLog, t) = "add"
              /\ t \in baDelete <=> LastOperation(baLog, t) = "delete"

\* A triple was added by one message and deleted by the next, and one was
\* deleted and added again by a later message.
C29_Witness ==
    /\ Len(baLog) = 3
    /\ "t1" \in baLog[1].added.triples
    /\ "t1" \in baLog[2].deleted.triples /\ ~baLog[2].added.present
    /\ "t1" \in baLog[3].added.triples /\ ~baLog[3].deleted.present
    /\ "t1" \in baInsert /\ "t2" \in baDelete

====
